---------------------------- MODULE Spec2Model ----------------------------
(***************************************************************************)
(* State-machine model of the Canadian Stamp Identifier (class             *)
(* StampIdentifier, src/js/app.js, with the sweep of the mobile revision   *)
(* in src/unnamed/part_003): catalog load and sort, incremental rendering  *)
(* with decade markers, the image lifecycle (observers, bounded loader,    *)
(* blob-URL cache, unloading), the pan/zoom transform and the search       *)
(* overlay.                                                                *)
(***************************************************************************)
EXTENDS Integers, Sequences, FiniteSets, Bags, TLC

(***************************************************************************)
(* Bounds of the model (not program constants).                            *)
(***************************************************************************)
MaxCatalog == 3          \* records in a small catalog document
LargeCatalog == 27       \* records in the large catalog document
MaxFrameBatches == 2     \* batches that fit into one frame's time budget
MaxReports == 3          \* intersection reports the observers deliver
RenderReports == 1       \* intersection reports while the catalog renders
SweepCatalog == 102      \* records in the catalog the mobile reader scrolls
MaxSweeps == 1           \* runs of the periodic sweep
ContainerWidth == 360    \* canvasContainer.clientWidth, in px
ContainerHeight == 280   \* canvasContainer.clientHeight, in px
MaxZooms == 4            \* clicks on the zoom buttons
MaxGestures == 2         \* wheel, pan, jump, key and mouse-button events
MaxSearches == 2         \* search inputs
RenderNoise == 1         \* view and search events while the catalog renders
MaxModeEvents == 3       \* Shift key and toggle events of a reader who does nothing else
MaxFailures == 1         \* failed fetches of the scrolling reader
MaxSteps == 4            \* net next/previous steps either way

(***************************************************************************)
(* Program constants.                                                      *)
(***************************************************************************)
batchSize == 25               \* app.js, renderBatch
maxConcurrentLoads == 6       \* app.js, constructor
preloadLimit == 50            \* app.js, startPreloadingImages
mobileBatchSize == 15         \* mobile revision, renderBatch
mobileMaxConcurrentLoads == 3 \* mobile revision, constructor
mobileMaxCacheSize == 50      \* mobile revision, constructor
mobilePreloadLimit == 20      \* mobile revision, startPreloadingImages
adaptiveBatchSize == 30       \* adaptive revision, desktop
adaptiveMaxImages == 6
adaptiveMaxCache == 200
adaptivePreload == 50
adaptiveMobileBatchSize == 8  \* adaptive revision, mobile
adaptiveMobileMaxImages == 1
adaptiveMobileMaxCache == 25
adaptiveMobilePreload == 10
adaptiveLoadingLimit == 5     \* adaptive revision, prioritizeImageLoad on mobile
paginatedBatchSize == 25      \* paginated revision, renderBatch
paginatedMaxLoads == 6        \* paginated revision, constructor
paginatedPreload == 50        \* paginated revision, startPreloadingImages
paginatedMobileMaxLoads == 2  \* paginated revision, constructor on mobile
paginatedMobileMaxCache == 50 \* paginated revision, constructor on mobile
paginatedMobilePreload == 20  \* paginated revision, startPreloadingImages
stampsPerPage == 30           \* paginated revision, constructor
cellWidth == 120              \* app.js, updateMiniMap: approximate stamp width
cellHeight == 140             \* app.js, updateMiniMap: approximate row height

\* what the constructor fixes: app.js has one configuration; the mobile
\* revision (second class of src/unnamed/part_003) picks its values by
\* window.innerWidth < 768, here the narrow window
DesktopConfig ==
    [revision |-> "desktop", isMobile |-> FALSE, batchSize |-> batchSize,
     maxConcurrentLoads |-> maxConcurrentLoads, maxCacheSize |-> 0,
     preloadLimit |-> preloadLimit]

\* the adaptive revision (src/unnamed/part_002) on either platform
AdaptiveDesktopConfig ==
    [revision |-> "adaptive", isMobile |-> FALSE,
     batchSize |-> adaptiveBatchSize, maxConcurrentLoads |-> adaptiveMaxImages,
     maxCacheSize |-> adaptiveMaxCache, preloadLimit |-> adaptivePreload]

AdaptiveMobileConfig ==
    [revision |-> "adaptive", isMobile |-> TRUE,
     batchSize |-> adaptiveMobileBatchSize,
     maxConcurrentLoads |-> adaptiveMobileMaxImages,
     maxCacheSize |-> adaptiveMobileMaxCache,
     preloadLimit |-> adaptiveMobilePreload]

MobileConfig ==
    [revision |-> "mobile", isMobile |-> TRUE, batchSize |-> mobileBatchSize,
     maxConcurrentLoads |-> mobileMaxConcurrentLoads,
     maxCacheSize |-> mobileMaxCacheSize, preloadLimit |-> mobilePreloadLimit]

\* the paginated revision (src/unnamed/part_003, first class): its desktop
\* path and its mobile path
PaginatedDesktopConfig ==
    [revision |-> "paginated", isMobile |-> FALSE,
     batchSize |-> paginatedBatchSize,
     maxConcurrentLoads |-> paginatedMaxLoads, maxCacheSize |-> 0,
     preloadLimit |-> paginatedPreload]

PaginatedMobileConfig ==
    [revision |-> "paginated", isMobile |-> TRUE,
     batchSize |-> paginatedBatchSize,
     maxConcurrentLoads |-> paginatedMobileMaxLoads,
     maxCacheSize |-> paginatedMobileMaxCache,
     preloadLimit |-> paginatedMobilePreload]

(***************************************************************************)
(* Sequence helpers.                                                       *)
(***************************************************************************)
Range(s) == {s[i] : i \in DOMAIN s}

RECURSIVE SeqsOver(_, _)
\* all sequences without repetition of exactly n elements of S
SeqsOver(S, n) ==
    IF n = 0 THEN {<<>>}
    ELSE UNION {{Append(t, x) : x \in S \ Range(t)} : t \in SeqsOver(S, n - 1)}

(***************************************************************************)
(* Stamp records.  A record is a JSON object: `fields' is the set of keys  *)
(* the object has; an optional text field the object lacks reads as the    *)
(* empty string, as (stamp.subTopic || '') does.  Image paths are numbered.*)
(***************************************************************************)
Digits == <<"0", "1", "2", "3", "4", "5", "6", "7", "8", "9">>

AllFields == {"id", "year", "mainTopic", "image"}

Stamp(id, year, topic, image) ==
    [id |-> id, year |-> year, mainTopic |-> topic, image |-> image,
     subTopic |-> "", denomination |-> "", color |-> "", notes |-> "",
     searchText |-> "", fields |-> AllFields]

\* a record with the descriptive fields as well
Described(stamp, subTopic, denomination, color, notes) ==
    [stamp EXCEPT !.subTopic = subTopic, !.denomination = denomination,
                  !.color = color, !.notes = notes,
                  !.fields = @ \cup {"subTopic", "denomination", "color", "notes"}]

\* the three records of createSampleData
Sample1 == Described(Stamp("001", 1851, "Beaver", 1),
                     "Three Pence", "3d", "red", "First Canadian stamp")
Sample2 == Described(Stamp("002", 1852, "Prince Albert", 2),
                     "Six Pence", "6d", "purple", "")
Sample3 == Described(Stamp("156", 1935, "Jacques Cartier", 3),
                     "Explorer Series", "3¢", "brown", "Part of historical series")

createSampleData == <<Sample1, Sample2, Sample3>>

\* further records a catalog document may hold
RecTwo == Stamp("2", 1851, "Beaver", 4)
RecTen == Stamp("10", 1851, "Queen Victoria", 5)
RecTenA == Stamp("10a", 1851, "Queen Victoria", 6)
RecShared == Stamp("3", 1935, "Cartier", 3)
RecNoTopic ==
    [Stamp("9", 1935, "", 7) EXCEPT !.fields = AllFields \ {"mainTopic"}]

\* records for the search: a stamp whose id and notes hold the digits of
\* another year and whose sub-topic is the main topic of another stamp
RecDam == Described(Stamp("1851", 1935, "Beaver Dam", 8),
                    "Beaver", "", "", "Reprint of 1851")
RecElizabeth == Described(Stamp("12", 1953, "Queen Elizabeth", 9),
                          "Queen", "", "", "")

\* a record without a year: stamp.year reads undefined
RecNoYear ==
    [Stamp("7", 0, "Caribou", 20) EXCEPT !.fields = AllFields \ {"year"}]

HasYear(stamp) == "year" \in stamp.fields

Universe == {Sample1, Sample3, RecTwo, RecTen, RecTenA, RecShared, RecNoTopic}

\* the decimal digits of n as an id string
IdOf(n) == IF n < 10 THEN Digits[n + 1]
           ELSE IF n < 100
           THEN Digits[(n \div 10) + 1] \o Digits[(n % 10) + 1]
           ELSE Digits[(n \div 100) + 1] \o Digits[((n \div 10) % 10) + 1]
                \o Digits[(n % 10) + 1]

\* record n of the large catalog: two records every fourth year, from 1900 on
LargeRec(n) == Stamp(IdOf(n), 1900 + 4 * (n \div 2), "Definitive", 10 + n)

\* the large catalog document lists its records newest first
LargeDoc == [i \in 1..LargeCatalog |-> LargeRec(LargeCatalog + 1 - i)]

\* the catalog of the mobile reader: one record a year, every image differs
SweepRec(n) == Stamp(IdOf(n), 1850 + n, "Definitive", 100 + n)
SweepDoc == [i \in 1..SweepCatalog |-> SweepRec(i)]

\* a fetched catalog document: HTTP status ok or not, and its stamps array
Documents ==
    {[ok |-> TRUE, stamps |-> s] :
        s \in (UNION {SeqsOver(Universe, n) : n \in 0..MaxCatalog})
              \cup {LargeDoc}}
    \cup {[ok |-> FALSE, stamps |-> <<>>]}

(***************************************************************************)
(* loadStamps: the sort comparator and Array.prototype.sort.               *)
(***************************************************************************)
IsDigit(c) == \E i \in DOMAIN Digits : Digits[i] = c
DigitVal(c) == (CHOOSE i \in DOMAIN Digits : Digits[i] = c) - 1

RECURSIVE LeadingDigits(_)
LeadingDigits(s) ==
    IF Len(s) = 0 \/ ~IsDigit(Head(s)) THEN <<>>
    ELSE <<Head(s)>> \o LeadingDigits(Tail(s))

RECURSIVE DecimalValue(_)
DecimalValue(ds) ==
    IF ds = <<>> THEN 0
    ELSE 10 * DecimalValue(SubSeq(ds, 1, Len(ds) - 1)) + DigitVal(ds[Len(ds)])

IsSpace(c) == c = " "

RECURSIVE TrimStart(_)
TrimStart(s) ==
    IF Len(s) > 0 /\ IsSpace(Head(s)) THEN TrimStart(Tail(s)) ELSE s

\* parseInt(s) skips leading white space, reads a sign and then the longest
\* prefix of digits; NaN when there is no digit.  No input here has the
\* hexadecimal prefix.
Signed(s) == Len(s) > 0 /\ Head(s) \in {"+", "-"}
Unsigned(s) == IF Signed(TrimStart(s)) THEN Tail(TrimStart(s)) ELSE TrimStart(s)
IsNaN(s) == LeadingDigits(Unsigned(s)) = <<>>
parseInt(s) ==
    IF Signed(TrimStart(s)) /\ Head(TrimStart(s)) = "-"
    THEN 0 - DecimalValue(LeadingDigits(Unsigned(s)))
    ELSE DecimalValue(LeadingDigits(Unsigned(s)))

\* a comparator that leaves the year out
compareIdsOnly(a, b) ==
    IF IsNaN(a.id) \/ IsNaN(b.id) THEN 0
    ELSE parseInt(a.id) - parseInt(b.id)

\* the comparator of loadStamps; a NaN result counts as 0 in
\* Array.prototype.sort, and the difference of a year and undefined is NaN
compareStamps(a, b) ==
    IF HasYear(a) # HasYear(b) THEN 0
    ELSE IF HasYear(a) /\ a.year # b.year THEN a.year - b.year
    ELSE IF IsNaN(a.id) \/ IsNaN(b.id) THEN 0
    ELSE parseInt(a.id) - parseInt(b.id)

\* Array.prototype.sort is stable: x, later in the input than all of s, goes
\* behind every element that does not compare greater
RECURSIVE InsertSorted(_, _)
InsertSorted(s, x) ==
    IF s = <<>> THEN <<x>>
    ELSE LET last == s[Len(s)]
         IN  IF compareStamps(last, x) <= 0 THEN Append(s, x)
             ELSE Append(InsertSorted(SubSeq(s, 1, Len(s) - 1), x), last)

\* an array whose neighbours already compare in order stays as it is
RECURSIVE SortStamps(_)
SortStamps(s) ==
    IF \A k \in 1..(Len(s) - 1) : compareStamps(s[k], s[k + 1]) <= 0 THEN s
    ELSE InsertSorted(SortStamps(SubSeq(s, 1, Len(s) - 1)), s[Len(s)])

(***************************************************************************)
(* The paginated revision (src/unnamed/part_003, first class) reads a      *)
(* missing year as 0 and compares ids with localeCompare(..., {numeric:    *)
(* true}): runs of digits compare by value, other characters in collation  *)
(* order, and a prefix comes before its extensions.                        *)
(***************************************************************************)
Collation == "0123456789abcdefghijklmnopqrstuvwxyz"
CharRank(c) ==
    IF \E i \in 1..Len(Collation) : SubSeq(Collation, i, i) = c
    THEN CHOOSE i \in 1..Len(Collation) : SubSeq(Collation, i, i) = c
    ELSE 0

RECURSIVE localeCompare(_, _)
localeCompare(a, b) ==
    IF Len(a) = 0 /\ Len(b) = 0 THEN 0
    ELSE IF Len(a) = 0 THEN 0 - 1
    ELSE IF Len(b) = 0 THEN 1
    ELSE IF IsDigit(Head(a)) /\ IsDigit(Head(b))
    THEN LET da == LeadingDigits(a)
             db == LeadingDigits(b)
         IN  IF DecimalValue(da) # DecimalValue(db)
             THEN DecimalValue(da) - DecimalValue(db)
             ELSE localeCompare(SubSeq(a, Len(da) + 1, Len(a)),
                                SubSeq(b, Len(db) + 1, Len(b)))
    ELSE IF CharRank(Head(a)) # CharRank(Head(b))
    THEN CharRank(Head(a)) - CharRank(Head(b))
    ELSE localeCompare(Tail(a), Tail(b))

\* the comparator of the paginated loadStamps
comparePaginated(a, b) ==
    LET yearA == IF "year" \in a.fields THEN a.year ELSE 0
        yearB == IF "year" \in b.fields THEN b.year ELSE 0
        idA == IF "id" \in a.fields /\ a.id # "" THEN a.id ELSE "0"
        idB == IF "id" \in b.fields /\ b.id # "" THEN b.id ELSE "0"
    IN  IF yearA # yearB THEN yearA - yearB ELSE localeCompare(idA, idB)

RECURSIVE InsertPaginated(_, _)
InsertPaginated(s, x) ==
    IF s = <<>> THEN <<x>>
    ELSE LET last == s[Len(s)]
         IN  IF comparePaginated(last, x) <= 0 THEN Append(s, x)
             ELSE Append(InsertPaginated(SubSeq(s, 1, Len(s) - 1), x), last)

RECURSIVE SortPaginated(_)
SortPaginated(s) ==
    IF \A k \in 1..(Len(s) - 1) : comparePaginated(s[k], s[k + 1]) <= 0 THEN s
    ELSE InsertPaginated(SortPaginated(SubSeq(s, 1, Len(s) - 1)), s[Len(s)])

(***************************************************************************)
(* The grid: decade markers and stamp nodes.  A stamp node carries the     *)
(* position of its record in this.stamps.                                  *)
(***************************************************************************)
getPlaceholderSrc == 0      \* the data: URI; blob URLs are numbered from 1

MarkerNode(d) == [kind |-> "marker", decade |-> d, rec |-> 0]
StampNode(d, i) == [kind |-> "stamp", decade |-> d, rec |-> i]

Decade(year) == (year \div 10) * 10

\* Math.floor(undefined / 10) * 10 is NaN; the number below stands for it,
\* a value no year has as its decade
NaN == 0 - 1

DecadeOf(stamp) == IF HasYear(stamp) THEN Decade(stamp.year) ELSE NaN

VARIABLES
    config,           \* the configuration the constructor fixed
    document,         \* the catalog document the fetch returns
    pc,               \* position of init(): "loading", "loaded", "ready"
    stamps,           \* this.stamps
    renderQueue,      \* this.renderQueue: positions in stamps still to render
    renderedDecades,  \* this.renderedDecades
    isRendering,      \* this.isRendering
    frames,           \* pending requestAnimationFrame callbacks, oldest first
    grid,             \* children of #stampGrid, in document order
    emptyMessage,     \* the "No stamps found" message is shown
    vpObserved,       \* stamp nodes observed by this.viewportObserver
    lazyObserved,     \* images <<node, generation>> observed by lazyLoadObserver
    imgSrc,           \* src of the <img> attached to each stamp node
    imgGen,           \* how often a node's children were re-created (innerHTML +=)
    fallback,         \* nodes showing the topic-text placeholder
    imageCache,       \* this.imageCache: entries [key, value] in insertion order
    preloadQueue,     \* this.preloadQueue
    currentLoads,     \* this.currentLoads
    inFlight,         \* bag of the items whose loadImage promise is pending
    timers,           \* pending setTimeout(() => this.processImageQueue(), 10)
    blobCount,        \* object URLs created so far; a URL is its number
    revoked,          \* object URLs passed to URL.revokeObjectURL
    reported,         \* history: nodes an observer reported as intersecting
    started,          \* history: nodes for whose image a fetch was started
    reports,          \* history: number of intersection reports
    sweeps,           \* history: number of runs of the periodic sweep
    preloadTimers,    \* adaptive revision: images whose preload timer is pending
    inThrottle,       \* adaptive revision: the inThrottle flags of the two
                      \* throttled functions
    scale,            \* this.scale, a rational <<numerator, denominator>>
    translateX,       \* this.translateX
    translateY,       \* this.translateY
    applied,          \* the transform last written to stampGrid.style
    miniMap,          \* what the minimap indicator was last computed from
    isDragging,       \* this.isDragging
    lastX,            \* this.lastX
    lastY,            \* this.lastY
    isShiftPressed,   \* this.isShiftPressed
    panMode,          \* this.panMode
    bodyClasses,      \* "pan-mode" and "dragging" on document.body
    cursor,           \* canvasContainer.style.cursor
    searchValue,      \* this.searchInput.value
    currentMatches,   \* this.currentMatches: positions in this.stamps
    currentMatchIndex,\* this.currentMatchIndex
    searchCurrent,    \* stamp nodes with class search-current
    searchMatch,      \* stamp nodes with class search-match
    searchInfo,       \* the #searchInfo line
    used,             \* history: view operations performed, by kind, and the
                      \* place `at' of the pointer at the last zoom event
    steps,            \* history: nextMatch minus previousMatch calls since the search
    currentPage,      \* paginated revision: this.currentPage
    totalPages,       \* paginated revision: this.totalPages
    mobileViewMode,   \* paginated revision: "browse" or "search"
    mobileResults,    \* paginated revision: content of #mobile-results
    paginationControls, \* paginated revision: #mobile-pagination-controls
    console,          \* the messages written with console.error
    failureMessage,   \* the "Failed to load stamps" text of init's catch is shown
    visibleStamps,    \* this.visibleStamps: ids of the stamps reported in view
    leftView,         \* history: nodes with a fetch in flight that were reported
                      \* as not intersecting, and not as intersecting since
    destroyed,        \* history: destroy() has run
    lastOp            \* the handler that ran last

renderVars == <<config, document, pc, stamps, renderQueue, renderedDecades,
                isRendering, frames, grid, emptyMessage, vpObserved>>

imageVars == <<lazyObserved, imgSrc, imgGen, fallback, imageCache,
               preloadQueue, currentLoads, inFlight, timers, blobCount,
               revoked, reported, started, reports, sweeps>>

adaptiveVars == <<preloadTimers, inThrottle>>

transformVars == <<scale, translateX, translateY, applied, miniMap>>

pointerVars == <<isDragging, lastX, lastY, isShiftPressed, panMode,
                 bodyClasses, cursor>>

searchVars == <<searchValue, currentMatches, currentMatchIndex,
                searchCurrent, searchMatch, searchInfo>>

uiVars == <<transformVars, pointerVars, searchVars, used, steps>>

mobileVars == <<currentPage, totalPages, mobileViewMode, mobileResults,
                paginationControls>>

errorVars == <<console, failureMessage>>

observerVars == <<visibleStamps, leftView, destroyed>>

vars == <<renderVars, imageVars, adaptiveVars, uiVars, mobileVars, errorVars,
          observerVars, lastOp>>

(***************************************************************************)
(* The state after the constructor: init() has called the two observer     *)
(* set-ups and awaits the fetch of loadStamps.                             *)
(***************************************************************************)
InitRender ==
    /\ pc = "loading"
    /\ stamps = <<>>
    /\ renderQueue = <<>>
    /\ renderedDecades = {}
    /\ isRendering = FALSE
    /\ frames = <<>>
    /\ grid = <<>>
    /\ emptyMessage = FALSE
    /\ vpObserved = {}
    /\ lastOp = "constructor"

InitImages ==
    /\ lazyObserved = {}
    /\ imgSrc = <<>>
    /\ imgGen = <<>>
    /\ fallback = {}
    /\ imageCache = <<>>
    /\ preloadQueue = <<>>
    /\ currentLoads = 0
    /\ inFlight = EmptyBag
    /\ timers = 0
    /\ blobCount = 0
    /\ revoked = {}
    /\ reported = {}
    /\ started = {}
    /\ reports = 0
    /\ sweeps = 0
    /\ preloadTimers = {}
    /\ inThrottle = [transform |-> FALSE, miniMap |-> FALSE]
    /\ visibleStamps = {}
    /\ leftView = {}
    /\ destroyed = FALSE

\* the constructor's view and search fields; the grid carries no inline
\* transform and the search line is hidden
InitUi ==
    /\ scale = <<3, 10>>
    /\ translateX = <<0, 1>>
    /\ translateY = <<0, 1>>
    /\ applied = [x |-> <<0, 1>>, y |-> <<0, 1>>, scale |-> <<1, 1>>]
    /\ miniMap = [x |-> <<0, 1>>, y |-> <<0, 1>>, scale |-> <<1, 1>>,
                  total |-> 0, drawn |-> FALSE]
    /\ isDragging = FALSE
    /\ lastX = 0
    /\ lastY = 0
    /\ isShiftPressed = FALSE
    /\ panMode = FALSE
    /\ bodyClasses = {}
    /\ cursor = "default"
    /\ searchValue = ""
    /\ currentMatches = <<>>
    /\ currentMatchIndex = 0
    /\ searchCurrent = {}
    /\ searchMatch = {}
    /\ searchInfo = [shown |-> FALSE, current |-> 0, total |-> 0]
    /\ used = [zoom |-> 0, wheel |-> 0, pan |-> 0, jump |-> 0, landed |-> 0,
               pointer |-> 0, search |-> 0, at |-> <<0, 0>>]
    /\ steps = 0
    /\ currentPage = 1
    /\ totalPages = 0
    /\ mobileViewMode = "browse"
    /\ mobileResults = [kind |-> "static", items |-> <<>>]
    /\ paginationControls = [shown |-> FALSE, page |-> 0, total |-> 0]
    /\ console = {}
    /\ failureMessage = FALSE

Init ==
    /\ config = DesktopConfig
    /\ document \in Documents
    /\ InitRender
    /\ InitImages
    /\ InitUi

(***************************************************************************)
(* Strings are sequences of characters.                                    *)
(***************************************************************************)
UpperCase == "ABCDEFGHIJKLMNOPQRSTUVWXYZ"
LowerCase == "abcdefghijklmnopqrstuvwxyz"

LowerChar(c) ==
    IF \E i \in 1..Len(UpperCase) : SubSeq(UpperCase, i, i) = c
    THEN LET i == CHOOSE j \in 1..Len(UpperCase) : SubSeq(UpperCase, j, j) = c
         IN  SubSeq(LowerCase, i, i)
    ELSE c

RECURSIVE toLowerCase(_)
toLowerCase(s) ==
    IF Len(s) = 0 THEN "" ELSE LowerChar(Head(s)) \o toLowerCase(Tail(s))

RECURSIVE TrimEnd(_)
TrimEnd(s) ==
    IF Len(s) > 0 /\ IsSpace(SubSeq(s, Len(s), Len(s)))
    THEN TrimEnd(SubSeq(s, 1, Len(s) - 1)) ELSE s

trim(s) == TrimEnd(TrimStart(s))

\* preprocessStampsForSearch: the text cached in stamp._searchText
searchableText(stamp) ==
    toLowerCase(stamp.mainTopic \o " " \o stamp.subTopic \o " " \o stamp.color
                \o " " \o stamp.denomination \o " " \o stamp.notes \o " "
                \o (IF HasYear(stamp) THEN ToString(stamp.year) ELSE "")
                \o " " \o stamp.id)

preprocessStampsForSearch(s) ==
    [i \in DOMAIN s |-> [s[i] EXCEPT !.searchText = searchableText(s[i])]]

(***************************************************************************)
(* loadStamps: a document that is absent, not ok or malformed ends in      *)
(* the catch block, which writes the error to the console and installs     *)
(* the sample data.  loadStamps never rejects, so the catch block of       *)
(* init(), the only writer of the "Failed to load stamps" text, is not     *)
(* reached from a failed load.                                             *)
(***************************************************************************)
loadStamps ==
    /\ pc = "loading"
    /\ stamps' = preprocessStampsForSearch(
                     IF ~document.ok THEN createSampleData
                     ELSE IF config.revision = "paginated"
                     THEN SortPaginated(document.stamps)
                     ELSE SortStamps(document.stamps))
    /\ console' = IF document.ok THEN console
                  ELSE console \cup {"Error loading stamps:"}
    /\ pc' = "loaded"
    /\ lastOp' = "loadStamps"
    /\ UNCHANGED adaptiveVars
    /\ UNCHANGED uiVars
    /\ UNCHANGED <<mobileVars, failureMessage, observerVars>>
    /\ UNCHANGED <<config, document, renderQueue, renderedDecades,
                   isRendering, frames, grid, emptyMessage, vpObserved>>
    /\ UNCHANGED imageVars

(***************************************************************************)
(* The image loader.  Its operators map a loader state L (the fields the   *)
(* loader writes) to the loader state after the call.                      *)
(***************************************************************************)
Loader ==
    [src |-> imgSrc, cache |-> imageCache, queue |-> preloadQueue,
     loads |-> currentLoads, flight |-> inFlight, started |-> started]

SetLoader(L) ==
    /\ imgSrc' = L.src
    /\ imageCache' = L.cache
    /\ preloadQueue' = L.queue
    /\ currentLoads' = L.loads
    /\ inFlight' = L.flight
    /\ started' = L.started

\* Map.has, Map.get and Map.set on the insertion-ordered entries
CacheHas(cache, key) == \E k \in DOMAIN cache : cache[k].key = key
CacheGet(cache, key) ==
    cache[CHOOSE k \in DOMAIN cache : cache[k].key = key].value
CacheSet(cache, key, value) ==
    IF CacheHas(cache, key)
    THEN [k \in DOMAIN cache |->
             IF cache[k].key = key THEN [key |-> key, value |-> value]
             ELSE cache[k]]
    ELSE Append(cache, [key |-> key, value |-> value])

\* an <img> element is a node and the generation of its children; a queue
\* item holds the element, the path and the priority
Item(node, gen, src, priority) ==
    [node |-> node, gen |-> gen, src |-> src, priority |-> priority]

\* img.src = value: seen in the grid when the element is still attached
SetSrc(src, node, gen, value) ==
    IF node \in DOMAIN src /\ imgGen[node] = gen
    THEN [src EXCEPT ![node] = value]
    ELSE src

processImageQueue(L) ==
    IF L.loads >= config.maxConcurrentLoads \/ L.queue = <<>> THEN L
    ELSE LET item == Head(L.queue)
         IN  [L EXCEPT !.queue = Tail(@),
                       !.loads = @ + 1,
                       !.flight = @ (+) SetToBag({item}),
                       !.started = @ \cup {item.node}]

\* img.src never equals the relative path in dataset.src (it is the data:
\* URI or a blob: URL), so the first guard only tests that the path exists
prioritizeImageLoad(L, node, gen) ==
    LET realSrc == stamps[node].image
    IN  IF "image" \notin stamps[node].fields THEN L
        ELSE IF CacheHas(L.cache, realSrc)
        THEN [L EXCEPT !.src = SetSrc(@, node, gen, CacheGet(L.cache, realSrc))]
        ELSE processImageQueue(
                 [L EXCEPT !.queue = <<Item(node, gen, realSrc, "high")>> \o @])

\* the stamp nodes of a grid, in document order
StampNodes(g) == SelectSeq(g, LAMBDA n : n.kind = "stamp")

RECURSIVE PushAll(_, _)
PushAll(queue, items) ==
    IF items = <<>> THEN queue
    ELSE PushAll(Append(queue, Head(items)), Tail(items))

\* a preload that queues the image of every record of the catalog
preloadWholeCatalog(L, g) ==
    processImageQueue(
        [L EXCEPT !.queue = PushAll(@, [i \in 1..Len(stamps) |->
                                           Item(i, 0, stamps[i].image, "medium")])])

\* startPreloadingImages over the images that are in the document g
startPreloadingImages(L, g) ==
    LET imgs == StampNodes(g)
        first == SubSeq(imgs, 1, IF Len(imgs) < config.preloadLimit
                                 THEN Len(imgs) ELSE config.preloadLimit)
        items == [k \in DOMAIN first |->
                     Item(first[k].rec, imgGen[first[k].rec],
                          stamps[first[k].rec].image, "medium")]
    IN  processImageQueue([L EXCEPT !.queue = PushAll(@, items)])

(***************************************************************************)
(* scheduleRender, up to its requestAnimationFrame call: the new values    *)
(* of isRendering and of the pending frame callbacks.                      *)
(***************************************************************************)
scheduleRender(rendering, queue, pending) ==
    IF rendering \/ queue = <<>>
    THEN [isRendering |-> rendering, frames |-> pending]
    ELSE [isRendering |-> TRUE, frames |-> Append(pending, "batch")]

(***************************************************************************)
(* The continuation of init() behind `await this.loadStamps()':            *)
(* renderStampsVirtual, the set-up calls and startPreloadingImages, which  *)
(* run to completion before any frame callback.  The response document     *)
(* goes out of scope.                                                      *)
(***************************************************************************)
renderStampsVirtual ==
    /\ pc = "loaded"
    /\ ~(config.revision = "paginated" /\ config.isMobile)
    /\ pc' = "ready"
    /\ bodyClasses' = IF config.revision = "paginated"
                      THEN bodyClasses \cup {"is-desktop-device"}
                      ELSE bodyClasses
    /\ document' = [ok |-> document.ok, stamps |-> <<>>]
    /\ grid' = <<>>
    /\ IF stamps = <<>>
       THEN /\ emptyMessage' = TRUE
            /\ UNCHANGED <<renderQueue, renderedDecades, isRendering, frames>>
       ELSE LET queue == [i \in 1..Len(stamps) |-> i]
                sched == scheduleRender(isRendering, queue, frames)
            IN  /\ emptyMessage' = FALSE
                /\ renderQueue' = queue
                /\ renderedDecades' = {}
                /\ isRendering' = sched.isRendering
                /\ frames' = sched.frames
    /\ SetLoader(startPreloadingImages([Loader EXCEPT !.src = <<>>], grid'))
    /\ imgGen' = <<>>
    /\ applied' = [x |-> translateX, y |-> translateY, scale |-> scale]
    /\ miniMap' = IF config.revision = "desktop"
                  THEN [x |-> translateX, y |-> translateY, scale |-> scale,
                        total |-> Len(stamps), drawn |-> TRUE]
                  ELSE miniMap
    /\ lastOp' = "init"
    /\ UNCHANGED adaptiveVars
    /\ UNCHANGED <<mobileVars, errorVars, observerVars>>
    /\ UNCHANGED <<scale, translateX, translateY, isDragging, lastX, lastY,
                   isShiftPressed, panMode, cursor, searchVars, used, steps>>
    /\ UNCHANGED <<config, stamps, vpObserved, lazyObserved, fallback,
                   timers, blobCount, revoked, reported, reports, sweeps>>

(***************************************************************************)
(* renderBatch.  createStampElementOptimized reads                         *)
(* stamp.mainTopic.toLowerCase(): a record without mainTopic throws, after *)
(* the record left the queue and its decade marker was appended.           *)
(***************************************************************************)
\* a marker for every stamp, whether or not its decade was rendered
addMarkerAlways(r, decade) ==
    [r EXCEPT !.grid = Append(@, MarkerNode(decade)),
              !.decades = @ \cup {decade}]

\* lines 595-601: the decade marker of a decade not rendered before
addDecadeMarker(r, decade) ==
    IF decade \in r.decades THEN r
    ELSE [r EXCEPT !.grid = Append(@, MarkerNode(decade)),
                   !.decades = @ \cup {decade}]

\* a stamp element that is created but never appended
dropStampElement(r, decade, i) ==
    [r EXCEPT !.lazy = @ \cup {<<i, 0>>}]

\* lines 604-610: the stamp element is appended and observed (the lazy-load
\* observer takes its image in createStampElementOptimized)
appendStampElement(r, decade, i) ==
    [r EXCEPT !.grid = Append(@, StampNode(decade, i)),
              !.lazy = @ \cup {<<i, 0>>},
              !.vp = @ \cup {i}]

RECURSIVE RenderLoop(_, _)
\* n iterations of the for loop from r
RenderLoop(r, n) ==
    IF n = 0 \/ r.queue = <<>> \/ r.threw THEN r
    ELSE LET i == Head(r.queue)
             stamp == stamps[i]
             decade == DecadeOf(stamp)
             r1 == addDecadeMarker([r EXCEPT !.queue = Tail(@)], decade)
         IN  IF "mainTopic" \notin stamp.fields
             THEN [r1 EXCEPT !.threw = TRUE]
             ELSE RenderLoop(appendStampElement(r1, decade, i), n - 1)

RECURSIVE RenderBatches(_, _)
\* renderBatch calling itself while a batch stays under the time budget
RenderBatches(r, batches) ==
    IF batches = 0 THEN r
    ELSE RenderBatches(RenderLoop(r, config.batchSize), batches - 1)

\* the records that have a stamp node in grid g
Rendered(g) == {g[k].rec : k \in {j \in DOMAIN g : g[j].kind = "stamp"}}

\* the frame callback renderBatch; `batches' is how many batches the clock
\* lets run in this frame
renderBatch(batches) ==
    /\ pc = "ready"
    /\ frames # <<>> /\ Head(frames) = "batch"
    /\ LET r == RenderBatches([queue |-> renderQueue, decades |-> renderedDecades,
                               grid |-> grid, vp |-> vpObserved,
                               lazy |-> lazyObserved, threw |-> FALSE],
                              batches)
       IN  /\ renderQueue' = r.queue
           /\ renderedDecades' = r.decades
           /\ grid' = r.grid
           /\ vpObserved' = r.vp
           /\ lazyObserved' = r.lazy
           /\ imgSrc' = [i \in Rendered(r.grid) |->
                            IF i \in DOMAIN imgSrc THEN imgSrc[i]
                            ELSE getPlaceholderSrc]
           /\ imgGen' = [i \in Rendered(r.grid) |->
                            IF i \in DOMAIN imgGen THEN imgGen[i] ELSE 0]
           /\ IF r.threw
              THEN /\ frames' = Tail(frames)
                   /\ UNCHANGED isRendering
              ELSE IF r.queue # <<>>
              THEN /\ frames' = Append(Tail(frames), "resume")
                   /\ UNCHANGED isRendering
              ELSE /\ frames' = Tail(frames)
                   /\ isRendering' = FALSE
    /\ lastOp' = "renderBatch"
    /\ UNCHANGED adaptiveVars
    /\ UNCHANGED uiVars
    /\ UNCHANGED <<mobileVars, errorVars, observerVars>>
    /\ UNCHANGED <<config, document, pc, stamps, emptyMessage, fallback,
                   imageCache, preloadQueue, currentLoads, inFlight, timers,
                   blobCount, revoked, reported, started, reports, sweeps>>

\* the frame callback that renderBatch requests when stamps are left
resumeRender ==
    /\ pc = "ready"
    /\ frames # <<>> /\ Head(frames) = "resume"
    /\ LET sched == scheduleRender(FALSE, renderQueue, Tail(frames))
       IN  /\ isRendering' = sched.isRendering
           /\ frames' = sched.frames
    /\ lastOp' = "resumeRender"
    /\ UNCHANGED adaptiveVars
    /\ UNCHANGED uiVars
    /\ UNCHANGED <<mobileVars, errorVars, observerVars>>
    /\ UNCHANGED <<config, document, pc, stamps, renderQueue, renderedDecades,
                   grid, emptyMessage, vpObserved>>
    /\ UNCHANGED imageVars

(***************************************************************************)
(* Observer callbacks.  Which observed element intersects, and how far a   *)
(* node that left is from the container, is the environment's choice.      *)
(***************************************************************************)
\* viewportObserver reports a stamp node as intersecting: loadImageIfNeeded
viewportEnter(node, limit) ==
    /\ pc = "ready"
    /\ node \in vpObserved
    /\ reports < limit
    /\ SetLoader(prioritizeImageLoad(Loader, node, imgGen[node]))
    /\ reported' = reported \cup {node}
    /\ reports' = reports + 1
    /\ lastOp' = "viewportEnter"
    /\ UNCHANGED adaptiveVars
    /\ UNCHANGED uiVars
    /\ UNCHANGED <<mobileVars, errorVars>>
    /\ visibleStamps' = IF config.revision = "desktop"
                        THEN visibleStamps \cup {stamps[node].id}
                        ELSE visibleStamps
    /\ UNCHANGED destroyed
    /\ leftView' = leftView \ {node}
    /\ UNCHANGED renderVars
    /\ UNCHANGED <<lazyObserved, imgGen, fallback, timers, blobCount, revoked,
                   sweeps>>

\* lazyLoadObserver reports an image as intersecting; an element that left
\* the document no longer intersects
lazyEnter(img, limit) ==
    /\ pc = "ready"
    /\ img \in lazyObserved /\ imgGen[img[1]] = img[2]
    /\ reports < limit
    /\ SetLoader(prioritizeImageLoad(Loader, img[1], img[2]))
    /\ reported' = reported \cup {img[1]}
    /\ reports' = reports + 1
    /\ lastOp' = "lazyEnter"
    /\ UNCHANGED adaptiveVars
    /\ UNCHANGED uiVars
    /\ UNCHANGED <<mobileVars, errorVars, observerVars>>
    /\ UNCHANGED renderVars
    /\ UNCHANGED <<lazyObserved, imgGen, fallback, timers, blobCount, revoked,
                   sweeps>>

\* unloadImageIfFaraway on the element state U: a blob: image that is far
\* from the container is revoked and replaced by the placeholder; the mobile
\* and the adaptive revision observe the image again for lazy loading
unloadImageIfFaraway(U, node, far) ==
    IF U.src[node] # getPlaceholderSrc /\ far
    THEN [src |-> [U.src EXCEPT ![node] = getPlaceholderSrc],
          revoked |-> U.revoked \cup {U.src[node]},
          lazy |-> IF config.revision # "desktop"
                   THEN U.lazy \cup {<<node, imgGen[node]>>}
                   ELSE U.lazy]
    ELSE U

\* viewportObserver reports a stamp node as not intersecting; the mobile
\* and the adaptive revision unload only when isMobile
viewportLeave(node, far) ==
    /\ pc = "ready"
    /\ node \in vpObserved
    /\ LET U == unloadImageIfFaraway(
                    [src |-> imgSrc, revoked |-> revoked, lazy |-> lazyObserved],
                    node,
                    far /\ (config.revision = "desktop" \/ config.isMobile))
       IN  /\ imgSrc' = U.src
           /\ revoked' = U.revoked
           /\ lazyObserved' = U.lazy
    /\ lastOp' = "viewportLeave"
    /\ UNCHANGED adaptiveVars
    /\ UNCHANGED uiVars
    /\ UNCHANGED <<mobileVars, errorVars>>
    /\ visibleStamps' = IF config.revision = "desktop"
                        THEN visibleStamps \ {stamps[node].id}
                        ELSE visibleStamps
    /\ UNCHANGED destroyed
    /\ leftView' = IF \E item \in BagToSet(inFlight) : item.node = node
                   THEN leftView \cup {node}
                   ELSE leftView
    /\ UNCHANGED renderVars
    /\ UNCHANGED <<imgGen, fallback, imageCache, preloadQueue, currentLoads,
                   inFlight, timers, blobCount, reported, started, reports,
                   sweeps>>

(***************************************************************************)
(* The promise of loadImage settles: then/catch/finally of                 *)
(* processImageQueue.                                                      *)
(***************************************************************************)
\* a settled fetch that keeps its slot
keepSlot(loads) == loads

\* the finally handler, on success and on failure: this.currentLoads--
releaseSlot(loads) == loads - 1

\* a failure handler that leaves the node as it is
keepPlaceholderImage(item) == UNCHANGED <<imgGen, fallback>>

\* showImagePlaceholder: `innerHTML +=' re-creates the node's children, so
\* the element the item holds leaves the document
showImagePlaceholder(item) ==
    IF item.node \in DOMAIN imgGen /\ imgGen[item.node] = item.gen
    THEN /\ imgGen' = [imgGen EXCEPT ![item.node] = @ + 1]
         /\ fallback' = fallback \cup {item.node}
    ELSE UNCHANGED <<imgGen, fallback>>

imageLoaded(item) ==
    /\ pc = "ready"
    /\ BagIn(item, inFlight)
    /\ blobCount' = blobCount + 1
    /\ imageCache' = CacheSet(imageCache, item.src, blobCount + 1)
    /\ imgSrc' = SetSrc(imgSrc, item.node, item.gen, blobCount + 1)
    /\ lazyObserved' = lazyObserved \ {<<item.node, item.gen>>}
    /\ inFlight' = inFlight (-) SetToBag({item})
    /\ currentLoads' = releaseSlot(currentLoads)
    /\ timers' = timers + 1
    /\ lastOp' = "imageLoaded"
    /\ UNCHANGED adaptiveVars
    /\ UNCHANGED uiVars
    /\ UNCHANGED <<mobileVars, errorVars, visibleStamps>>
    /\ UNCHANGED destroyed
    /\ leftView' = leftView \ {item.node}
    /\ UNCHANGED renderVars
    /\ UNCHANGED <<imgGen, fallback, preloadQueue, revoked, reported,
                   started, reports, sweeps>>

imageFailed(item) ==
    /\ pc = "ready"
    /\ BagIn(item, inFlight)
    /\ showImagePlaceholder(item)
    /\ inFlight' = inFlight (-) SetToBag({item})
    /\ currentLoads' = releaseSlot(currentLoads)
    /\ timers' = timers + 1
    /\ lastOp' = "imageFailed"
    /\ UNCHANGED adaptiveVars
    /\ UNCHANGED uiVars
    /\ UNCHANGED <<mobileVars, errorVars, visibleStamps>>
    /\ UNCHANGED destroyed
    /\ leftView' = leftView \ {item.node}
    /\ UNCHANGED renderVars
    /\ UNCHANGED <<lazyObserved, imgSrc, imageCache, preloadQueue, blobCount,
                   revoked, reported, started, reports, sweeps>>

\* the timer of the finally handler fires
queueTimer ==
    /\ pc = "ready"
    /\ timers > 0
    /\ timers' = timers - 1
    /\ SetLoader(processImageQueue(Loader))
    /\ lastOp' = "queueTimer"
    /\ UNCHANGED adaptiveVars
    /\ UNCHANGED uiVars
    /\ UNCHANGED <<mobileVars, errorVars, observerVars>>
    /\ UNCHANGED renderVars
    /\ UNCHANGED <<lazyObserved, imgGen, fallback, blobCount, revoked,
                   reported, reports, sweeps>>

(***************************************************************************)
(* The periodic sweep of the mobile revision (setInterval of               *)
(* setupMobileOptimizations, every 5000 ms).  Which stamp elements are far *)
(* from the window is the environment's choice.                            *)
(***************************************************************************)
\* the cache part of aggressiveCleanup: above the ceiling, the older half of
\* the entries is deleted
cleanCache(cache) ==
    IF Len(cache) > config.maxCacheSize
    THEN SubSeq(cache, (Len(cache) \div 2) + 1, Len(cache))
    ELSE cache

\* unloadImageIfFaraway on every element of `nodes'; a call writes the image
\* of its own element only
UnloadAll(U, nodes) ==
    [src |-> [n \in DOMAIN U.src |->
                 IF n \in nodes THEN unloadImageIfFaraway(U, n, TRUE).src[n]
                 ELSE U.src[n]],
     revoked |-> U.revoked
                 \cup UNION {unloadImageIfFaraway(U, n, TRUE).revoked : n \in nodes},
     lazy |-> U.lazy
              \cup UNION {unloadImageIfFaraway(U, n, TRUE).lazy : n \in nodes}]

aggressiveCleanup(far) ==
    /\ config.revision = "mobile" /\ config.isMobile
    /\ sweeps < MaxSweeps
    /\ far \subseteq vpObserved
    /\ LET kept == cleanCache(imageCache)
           gone == {imageCache[k].value :
                       k \in 1..(Len(imageCache) - Len(kept))}
           U == UnloadAll([src |-> imgSrc, revoked |-> revoked \cup gone,
                           lazy |-> lazyObserved], far)
       IN  /\ imageCache' = kept
           /\ imgSrc' = U.src
           /\ revoked' = U.revoked
           /\ lazyObserved' = U.lazy
    /\ sweeps' = sweeps + 1
    /\ lastOp' = "aggressiveCleanup"
    /\ UNCHANGED adaptiveVars
    /\ UNCHANGED uiVars
    /\ UNCHANGED <<mobileVars, errorVars, observerVars>>
    /\ UNCHANGED renderVars
    /\ UNCHANGED <<imgGen, fallback, preloadQueue, currentLoads, inFlight,
                   timers, blobCount, reported, started, reports>>

(***************************************************************************)
(* The adaptive revision (src/unnamed/part_002).  It has no queue: its     *)
(* prioritizeImageLoad starts the fetch itself or returns, and             *)
(* processImageQueue is empty.  Desktop renders the first batches inside   *)
(* init; mobile renders every batch from a timer, behind a loading notice. *)
(***************************************************************************)
LoadingNode == [kind |-> "loading", decade |-> 0, rec |-> 0]

\* loadingImages.has(img)
IsLoading(flight, node, gen) ==
    \E item \in BagToSet(flight) : item.node = node /\ item.gen = gen

prioritizeImageLoadAdaptive(L, node, gen) ==
    LET realSrc == stamps[node].image
    IN  IF "image" \notin stamps[node].fields THEN L
        ELSE IF CacheHas(L.cache, realSrc)
        THEN [L EXCEPT !.src = SetSrc(@, node, gen, CacheGet(L.cache, realSrc))]
        ELSE IF config.isMobile /\ BagCardinality(L.flight) > adaptiveLoadingLimit
        THEN L
        ELSE IF IsLoading(L.flight, node, gen)
                \/ L.loads >= config.maxConcurrentLoads
        THEN L
        ELSE [L EXCEPT !.loads = @ + 1,
                       !.flight = @ (+) SetToBag({Item(node, gen, realSrc, "high")}),
                       !.started = @ \cup {node}]

\* startPreloadingImages: a timer with a random delay for each of the first
\* images in the document g
preloadTimersFor(g) ==
    LET imgs == StampNodes(g)
    IN  {<<imgs[k].rec, 0>> :
            k \in {j \in DOMAIN imgs : j <= config.preloadLimit}}

\* the continuation of init() behind `await this.loadStamps()':
\* renderStampsAdaptive and startPreloadingImages; an exception of the
\* desktop batch ends init in its catch block
renderStampsAdaptive(batches) ==
    /\ pc = "loaded"
    /\ document' = [ok |-> document.ok, stamps |-> <<>>]
    /\ LET queue == [i \in 1..Len(stamps) |-> i]
           r == RenderBatches([queue |-> queue, decades |-> {}, grid |-> <<>>,
                               vp |-> vpObserved, lazy |-> lazyObserved,
                               threw |-> FALSE], batches)
       IN  IF stamps = <<>>
           THEN /\ emptyMessage' = TRUE
                /\ grid' = <<>>
                /\ pc' = "ready"
                /\ UNCHANGED <<renderQueue, renderedDecades, isRendering,
                               frames, vpObserved, lazyObserved, imgSrc, imgGen,
                               preloadTimers>>
           ELSE IF config.isMobile
           THEN /\ emptyMessage' = FALSE
                /\ grid' = <<LoadingNode>>
                /\ renderQueue' = queue
                /\ renderedDecades' = {}
                /\ isRendering' = TRUE
                /\ frames' = Append(frames, "progressive")
                /\ pc' = "ready"
                /\ UNCHANGED <<vpObserved, lazyObserved, imgSrc, imgGen,
                               preloadTimers>>
           ELSE /\ emptyMessage' = FALSE
                /\ grid' = r.grid
                /\ renderQueue' = r.queue
                /\ renderedDecades' = r.decades
                /\ vpObserved' = r.vp
                /\ lazyObserved' = r.lazy
                /\ imgSrc' = [i \in Rendered(r.grid) |-> getPlaceholderSrc]
                /\ imgGen' = [i \in Rendered(r.grid) |-> 0]
                /\ isRendering' = (r.threw \/ r.queue # <<>>)
                /\ frames' = IF ~r.threw /\ r.queue # <<>>
                             THEN Append(frames, "resumeBatch") ELSE frames
                /\ pc' = IF r.threw THEN "failed" ELSE "ready"
                /\ preloadTimers' = IF r.threw THEN {} ELSE preloadTimersFor(r.grid)
    /\ applied' = IF pc' = "ready"
                  THEN [x |-> translateX, y |-> translateY, scale |-> scale]
                  ELSE applied
    /\ lastOp' = "init"
    /\ UNCHANGED inThrottle
    /\ UNCHANGED <<mobileVars, errorVars, observerVars>>
    /\ UNCHANGED <<scale, translateX, translateY, miniMap, pointerVars,
                   searchVars, used, steps>>
    /\ UNCHANGED <<config, stamps, fallback, imageCache, preloadQueue,
                   currentLoads, inFlight, timers, blobCount, revoked, reported,
                   started, reports, sweeps>>

\* the timer callback renderProgressiveBatch of the mobile platform
renderProgressiveBatch ==
    /\ pc = "ready"
    /\ frames # <<>> /\ Head(frames) = "progressive"
    /\ LET r == RenderLoop([queue |-> renderQueue, decades |-> renderedDecades,
                            grid |-> grid, vp |-> vpObserved,
                            lazy |-> lazyObserved, threw |-> FALSE],
                           config.batchSize)
       IN  /\ renderQueue' = r.queue
           /\ renderedDecades' = r.decades
           /\ vpObserved' = r.vp
           /\ lazyObserved' = r.lazy
           /\ imgSrc' = [i \in Rendered(r.grid) |->
                            IF i \in DOMAIN imgSrc THEN imgSrc[i]
                            ELSE getPlaceholderSrc]
           /\ imgGen' = [i \in Rendered(r.grid) |->
                            IF i \in DOMAIN imgGen THEN imgGen[i] ELSE 0]
           /\ IF r.threw
              THEN /\ grid' = r.grid
                   /\ isRendering' = FALSE
                   /\ frames' = Tail(frames)
              ELSE IF r.queue # <<>>
              THEN /\ grid' = r.grid
                   /\ isRendering' = TRUE
                   /\ frames' = Append(Tail(frames), "progressive")
              ELSE /\ grid' = SelectSeq(r.grid, LAMBDA n : n.kind # "loading")
                   /\ isRendering' = FALSE
                   /\ frames' = Tail(frames)
    /\ lastOp' = "renderProgressiveBatch"
    /\ UNCHANGED inThrottle
    /\ UNCHANGED uiVars
    /\ UNCHANGED <<mobileVars, errorVars, observerVars>>
    /\ UNCHANGED <<config, document, pc, stamps, emptyMessage, fallback,
                   imageCache, preloadQueue, currentLoads, inFlight, timers,
                   blobCount, revoked, reported, started, reports, sweeps,
                   preloadTimers>>

\* an observer reports the image <<node, generation>> of a stamp as
\* intersecting (the viewport observer reports its stamp element)
adaptiveEnter(img, limit) ==
    /\ pc = "ready"
    /\ img[1] \in vpObserved /\ imgGen[img[1]] = img[2]
    /\ reports < limit
    /\ SetLoader(prioritizeImageLoadAdaptive(Loader, img[1], img[2]))
    /\ reported' = reported \cup {img[1]}
    /\ reports' = reports + 1
    /\ lastOp' = "adaptiveEnter"
    /\ UNCHANGED inThrottle
    /\ UNCHANGED uiVars
    /\ UNCHANGED <<mobileVars, errorVars, observerVars>>
    /\ UNCHANGED renderVars
    /\ UNCHANGED <<lazyObserved, imgGen, fallback, timers, blobCount, revoked,
                   sweeps, preloadTimers>>

\* a timer of startPreloadingImages fires
preloadTimer(img) ==
    /\ pc = "ready"
    /\ img \in preloadTimers
    /\ preloadTimers' = preloadTimers \ {img}
    /\ SetLoader(prioritizeImageLoadAdaptive(Loader, img[1], img[2]))
    /\ lastOp' = "preloadTimer"
    /\ UNCHANGED inThrottle
    /\ UNCHANGED uiVars
    /\ UNCHANGED <<mobileVars, errorVars, observerVars>>
    /\ UNCHANGED renderVars
    /\ UNCHANGED <<lazyObserved, imgGen, fallback, timers, blobCount, revoked,
                   reported, reports, sweeps>>

\* imageCache.set without the test of the size
cacheAlways(cache, key, value) == CacheSet(cache, key, value)

\* lines 465-467: the handle enters the cache only below the ceiling
cacheBelowCeiling(cache, key, value) ==
    IF Len(cache) < config.maxCacheSize THEN CacheSet(cache, key, value)
    ELSE cache

\* then/finally of the fetch; the image shows the handle whether or not it
\* was cached
adaptiveLoaded(item) ==
    /\ BagIn(item, inFlight)
    /\ blobCount' = blobCount + 1
    /\ imageCache' = cacheBelowCeiling(imageCache, item.src, blobCount + 1)
    /\ imgSrc' = SetSrc(imgSrc, item.node, item.gen, blobCount + 1)
    /\ lazyObserved' = lazyObserved \ {<<item.node, item.gen>>}
    /\ inFlight' = inFlight (-) SetToBag({item})
    /\ currentLoads' = releaseSlot(currentLoads)
    /\ lastOp' = "adaptiveLoaded"
    /\ UNCHANGED inThrottle
    /\ UNCHANGED uiVars
    /\ UNCHANGED <<mobileVars, errorVars, visibleStamps>>
    /\ UNCHANGED destroyed
    /\ leftView' = leftView \ {item.node}
    /\ UNCHANGED renderVars
    /\ UNCHANGED <<imgGen, fallback, preloadQueue, timers, revoked, reported,
                   started, reports, sweeps, preloadTimers>>

\* catch/finally of the fetch: showImagePlaceholder appends the topic text
\* once and keeps the image element
adaptiveFailed(item) ==
    /\ BagIn(item, inFlight)
    /\ fallback' = fallback \cup {item.node}
    /\ inFlight' = inFlight (-) SetToBag({item})
    /\ currentLoads' = releaseSlot(currentLoads)
    /\ lastOp' = "adaptiveFailed"
    /\ UNCHANGED inThrottle
    /\ UNCHANGED uiVars
    /\ UNCHANGED <<mobileVars, errorVars, visibleStamps>>
    /\ UNCHANGED destroyed
    /\ leftView' = leftView \ {item.node}
    /\ UNCHANGED renderVars
    /\ UNCHANGED <<lazyObserved, imgSrc, imgGen, imageCache, preloadQueue,
                   timers, blobCount, revoked, reported, started, reports,
                   sweeps, preloadTimers>>

(***************************************************************************)
(* Numbers of the view.  A Number is kept as an exact fraction in lowest   *)
(* terms, <<numerator, denominator>> with a positive denominator; the      *)
(* rounding of IEEE doubles is left out.                                   *)
(***************************************************************************)
Abs(n) == IF n < 0 THEN -n ELSE n

RECURSIVE GCD(_, _)
GCD(a, b) == IF b = 0 THEN a ELSE GCD(b, a % b)

Rat(n, d) ==
    LET g == GCD(Abs(n), Abs(d))
        s == IF d < 0 THEN -1 ELSE 1
    IN  <<(s * n) \div g, (s * d) \div g>>

RInt(n) == <<n, 1>>
RNeg(a) == <<0 - a[1], a[2]>>
RInv(a) == Rat(a[2], a[1])
RAdd(a, b) ==
    LET g == GCD(a[2], b[2])
    IN  Rat(a[1] * (b[2] \div g) + b[1] * (a[2] \div g), (a[2] \div g) * b[2])
RSub(a, b) == RAdd(a, RNeg(b))
RMul(a, b) ==
    LET g == GCD(Abs(a[1]), b[2])
        h == GCD(Abs(b[1]), a[2])
    IN  Rat((a[1] \div g) * (b[1] \div h), (a[2] \div h) * (b[2] \div g))
RDiv(a, b) == RMul(a, RInv(b))
RLess(a, b) ==
    LET g == GCD(a[2], b[2])
    IN  a[1] * (b[2] \div g) < b[1] * (a[2] \div g)
RMax(a, b) == IF RLess(a, b) THEN b ELSE a      \* Math.max
RMin(a, b) == IF RLess(b, a) THEN b ELSE a      \* Math.min

(***************************************************************************)
(* The view: scale and translate, the transform written to the grid and    *)
(* the minimap indicator.  The operators map the view fields V to the      *)
(* fields after the call.  The style sheet is not part of the sources:     *)
(* elements are laid out as updateMiniMap assumes, row by row in cells of  *)
(* cellWidth x cellHeight, floor(containerWidth / cellWidth) to a row.     *)
(***************************************************************************)
View ==
    [scale |-> scale, translateX |-> translateX, translateY |-> translateY,
     applied |-> applied, miniMap |-> miniMap,
     matches |-> currentMatches, index |-> currentMatchIndex,
     current |-> searchCurrent, match |-> searchMatch]

SetView(V) ==
    /\ scale' = V.scale
    /\ translateX' = V.translateX
    /\ translateY' = V.translateY
    /\ applied' = V.applied
    /\ miniMap' = V.miniMap
    /\ currentMatches' = V.matches
    /\ currentMatchIndex' = V.index
    /\ searchCurrent' = V.current
    /\ searchMatch' = V.match

updateTransform(V) ==
    [V EXCEPT !.applied = [x |-> V.translateX, y |-> V.translateY,
                           scale |-> V.scale]]

\* the indicator element exists once createMiniMap has run
updateMiniMap(V) ==
    IF pc # "ready" THEN V
    ELSE [V EXCEPT !.miniMap = [x |-> V.translateX, y |-> V.translateY,
                                scale |-> V.scale, total |-> Len(stamps),
                                drawn |-> TRUE]]

navigate(V, deltaX, deltaY) ==
    updateMiniMap(updateTransform(
        [V EXCEPT !.translateX = RAdd(@, RInt(deltaX)),
                  !.translateY = RAdd(@, RInt(deltaY))]))

\* a reset that leaves the scale as it is
centerViewKeepScale(V) ==
    updateMiniMap(updateTransform(
        [V EXCEPT !.translateX = RInt(0), !.translateY = RInt(0)]))

centerView(V) ==
    updateMiniMap(updateTransform(
        [V EXCEPT !.translateX = RInt(0), !.translateY = RInt(0),
                  !.scale = Rat(3, 10)]))

\* the stamp element document.querySelector finds for stamp i: the first
\* one in document order whose data-id is the stamp's id; 0 when none
ElementOf(i) ==
    LET hits == {k \in DOMAIN grid :
                    /\ grid[k].kind = "stamp"
                    /\ stamps[grid[k].rec].id = stamps[i].id}
    IN  IF hits = {} THEN 0
        ELSE CHOOSE k \in hits : \A j \in hits : k <= j

stampsPerRow == ContainerWidth \div cellWidth
LocalX(k) == ((k - 1) % stampsPerRow) * cellWidth
LocalY(k) == ((k - 1) \div stampsPerRow) * cellHeight

highlightMatches(V) ==
    LET elementAt(k) == IF ElementOf(V.matches[k]) = 0 THEN {}
                        ELSE {grid[ElementOf(V.matches[k])].rec}
    IN  [V EXCEPT
           !.current = UNION {elementAt(k) :
                                 k \in {j \in DOMAIN V.matches : j = V.index + 1}},
           !.match = UNION {elementAt(k) :
                               k \in {j \in DOMAIN V.matches : j # V.index + 1}}]

clearSearchHighlights(V) == [V EXCEPT !.current = {}, !.match = {}]

\* jumpToStamp without its first two lines: the jump is computed from
\* whatever document.querySelector returned
jumpToStampUnchecked(V, i) ==
    LET k == ElementOf(i)
        newScale == RMax(RInt(1), V.scale)
        stampX == RMul(RInt(LocalX(k)), V.applied.scale)
        stampY == RMul(RInt(LocalY(k)), V.applied.scale)
        width == RMul(RInt(cellWidth), V.applied.scale)
        height == RMul(RInt(cellHeight), V.applied.scale)
    IN  highlightMatches(updateMiniMap(updateTransform(
            [V EXCEPT
                !.scale = newScale,
                !.translateX =
                    RSub(Rat(ContainerWidth, 2),
                         RAdd(RMul(stampX, newScale),
                              RDiv(RMul(width, newScale), RInt(2)))),
                !.translateY =
                    RSub(Rat(ContainerHeight, 2),
                         RAdd(RMul(stampY, newScale),
                              RDiv(RMul(height, newScale), RInt(2))))])))

\* getBoundingClientRect reports the element as the applied transform shows it
jumpToStamp(V, i) ==
    LET k == ElementOf(i)
        newScale == RMax(RInt(1), V.scale)
        stampX == RMul(RInt(LocalX(k)), V.applied.scale)
        stampY == RMul(RInt(LocalY(k)), V.applied.scale)
        width == RMul(RInt(cellWidth), V.applied.scale)
        height == RMul(RInt(cellHeight), V.applied.scale)
        W == [V EXCEPT
                !.scale = newScale,
                !.translateX =
                    RSub(Rat(ContainerWidth, 2),
                         RAdd(RMul(stampX, newScale),
                              RDiv(RMul(width, newScale), RInt(2)))),
                !.translateY =
                    RSub(Rat(ContainerHeight, 2),
                         RAdd(RMul(stampY, newScale),
                              RDiv(RMul(height, newScale), RInt(2))))]
    IN  IF k = 0 THEN V
        ELSE highlightMatches(updateMiniMap(updateTransform(W)))

(***************************************************************************)
(* The handlers of the view.  The zoom and reset buttons call global       *)
(* functions, which work from the construction on; the listeners of        *)
(* setupEventListeners, createNavigationControls and createMiniMap exist   *)
(* once init has passed them.                                              *)
(***************************************************************************)
programVars == <<renderVars, imageVars, adaptiveVars, mobileVars, errorVars,
                 observerVars>>

\* the gestures made so far, the zoom buttons and the search box apart
Gestures == used.wheel + used.pan + used.jump + used.pointer

\* key and toggle events share the budget of the gestures; a reader who does
\* nothing else may make MaxModeEvents of them
ModeBudget ==
    \/ Gestures < MaxGestures
    \/ Gestures = used.pointer /\ used.pointer < MaxModeEvents

MousePoints == {<<0, 0>>, <<50, 20>>}

\* where the pointer is when it clicks a zoom button (onclick="zoomIn()"),
\* measured from the container's corner as the mouse points are; the page
\* that places the buttons is not part of the sources
ZoomButtonPoint == <<300, 20>>
MiniMapPoints == {<<0, 1>>, <<1, 2>>}
ArrowKeys == {"ArrowUp", "ArrowDown", "ArrowLeft", "ArrowRight"}
Keys == ArrowKeys \cup {"Shift", "Home"}
eraYears == [e \in {"1900s", "1930s", "1960s", "1990s", "2020s"} |->
                CASE e = "1900s" -> 1900 [] e = "1930s" -> 1930
                  [] e = "1960s" -> 1960 [] e = "1990s" -> 1990
                  [] e = "2020s" -> 2020]

zoomIn ==
    /\ used.zoom < MaxZooms
    /\ SetView(updateMiniMap(updateTransform(
           [View EXCEPT !.scale = RMin(RMul(@, Rat(3, 2)), RInt(5))])))
    /\ used' = [used EXCEPT !.zoom = @ + 1, !.at = ZoomButtonPoint]
    /\ lastOp' = "zoomIn"
    /\ UNCHANGED <<programVars, pointerVars, searchValue, searchInfo, steps>>

\* a zoom-out without the lower clamp
zoomOutUnclamped ==
    /\ used.zoom < MaxZooms
    /\ SetView(updateMiniMap(updateTransform(
           [View EXCEPT !.scale = RDiv(@, Rat(3, 2))])))
    /\ used' = [used EXCEPT !.zoom = @ + 1, !.at = ZoomButtonPoint]
    /\ lastOp' = "zoomOut"
    /\ UNCHANGED <<programVars, pointerVars, searchValue, searchInfo, steps>>

zoomOut ==
    /\ used.zoom < MaxZooms
    /\ SetView(updateMiniMap(updateTransform(
           [View EXCEPT !.scale = RMax(RDiv(@, Rat(3, 2)), Rat(1, 10))])))
    /\ used' = [used EXCEPT !.zoom = @ + 1, !.at = ZoomButtonPoint]
    /\ lastOp' = "zoomOut"
    /\ UNCHANGED <<programVars, pointerVars, searchValue, searchInfo, steps>>

\* the reset button (resetView) and the centre button of the navigation pad
resetView ==
    /\ SetView(centerView(View))
    /\ lastOp' = "centerView"
    /\ UNCHANGED <<programVars, pointerVars, searchValue, searchInfo, used,
                   steps>>

\* the four arrow buttons of the navigation pad
navClick(deltaX, deltaY) ==
    /\ pc = "ready"
    /\ Gestures < MaxGestures
    /\ SetView(navigate(View, deltaX, deltaY))
    /\ used' = [used EXCEPT !.pan = @ + 1]
    /\ lastOp' = "navigate"
    /\ UNCHANGED <<programVars, pointerVars, searchValue, searchInfo, steps>>

\* the change event of the checkbox, which createNavigationControls creates
\* unchecked: checked is the opposite of what it was
panModeToggle(checked) ==
    /\ pc = "ready"
    /\ checked # panMode
    /\ ModeBudget
    /\ used' = [used EXCEPT !.pointer = @ + 1]
    /\ panMode' = checked
    /\ bodyClasses' = IF checked THEN bodyClasses \cup {"pan-mode"}
                      ELSE bodyClasses \ {"pan-mode"}
    /\ lastOp' = "panModeToggle"
    /\ UNCHANGED <<programVars, transformVars, searchVars, steps,
                   isDragging, lastX, lastY, isShiftPressed, cursor>>

handleKeyDown(key, ctrlKey, inInput) ==
    /\ pc = "ready"
    /\ isShiftPressed' = (isShiftPressed \/ key = "Shift")
    /\ bodyClasses' = IF key = "Shift" THEN bodyClasses \cup {"pan-mode"}
                      ELSE bodyClasses
    /\ LET moveDistance == IF ctrlKey THEN 200 ELSE 100
           pans == ~inInput /\ key \in ArrowKeys
       IN  /\ IF pans THEN Gestures < MaxGestures
              ELSE ModeBudget
           /\ used' = IF pans THEN [used EXCEPT !.pan = @ + 1]
                      ELSE [used EXCEPT !.pointer = @ + 1]
           /\ SetView(IF inInput THEN View
                      ELSE CASE key = "ArrowUp" -> navigate(View, 0, moveDistance)
                             [] key = "ArrowDown" -> navigate(View, 0, -moveDistance)
                             [] key = "ArrowLeft" -> navigate(View, moveDistance, 0)
                             [] key = "ArrowRight" -> navigate(View, -moveDistance, 0)
                             [] key = "Home" -> centerView(View)
                             [] OTHER -> View)
    /\ lastOp' = IF ~inInput /\ key = "Home" THEN "centerView"
                 ELSE "handleKeyDown"
    /\ UNCHANGED <<programVars, searchValue, searchInfo, steps, isDragging,
                   lastX, lastY, panMode, cursor>>

handleKeyUp(key) ==
    /\ pc = "ready"
    /\ ModeBudget
    /\ used' = [used EXCEPT !.pointer = @ + 1]
    /\ key = "Shift"
    /\ isShiftPressed' = FALSE
    /\ bodyClasses' = IF ~panMode THEN bodyClasses \ {"pan-mode"}
                      ELSE bodyClasses
    /\ lastOp' = "handleKeyUp"
    /\ UNCHANGED <<programVars, transformVars, searchVars, steps,
                   isDragging, lastX, lastY, panMode, cursor>>

startDrag(point, isRightClick, onStamp) ==
    /\ pc = "ready"
    /\ Gestures < MaxGestures
    /\ used' = [used EXCEPT !.pointer = @ + 1]
    /\ isRightClick \/ panMode \/ isShiftPressed \/ ~onStamp
    /\ isDragging' = TRUE
    /\ lastX' = point[1]
    /\ lastY' = point[2]
    /\ cursor' = "grabbing"
    /\ bodyClasses' = bodyClasses \cup {"dragging"}
    /\ lastOp' = "startDrag"
    /\ UNCHANGED <<programVars, transformVars, searchVars, steps,
                   isShiftPressed, panMode>>

drag(point) ==
    /\ pc = "ready"
    /\ isDragging
    /\ Gestures < MaxGestures
    /\ SetView(navigate(View, point[1] - lastX, point[2] - lastY))
    /\ lastX' = point[1]
    /\ lastY' = point[2]
    /\ used' = [used EXCEPT !.pan = @ + 1]
    /\ lastOp' = "drag"
    /\ UNCHANGED <<programVars, searchValue, searchInfo, steps, isDragging,
                   isShiftPressed, panMode, bodyClasses, cursor>>

endDrag ==
    /\ pc = "ready"
    /\ Gestures < MaxGestures
    /\ used' = [used EXCEPT !.pointer = @ + 1]
    /\ isDragging
    /\ isDragging' = FALSE
    /\ cursor' = IF panMode \/ isShiftPressed THEN "grab" ELSE "default"
    /\ bodyClasses' = bodyClasses \ {"dragging"}
    /\ lastOp' = "endDrag"
    /\ UNCHANGED <<programVars, transformVars, searchVars, steps,
                   lastX, lastY, isShiftPressed, panMode>>

handleWheel(mouse, deltaDown, ctrlKey) ==
    /\ pc = "ready"
    /\ Gestures < MaxGestures
    /\ LET zoomSpeed == IF ctrlKey THEN Rat(6, 5) ELSE Rat(11, 10)
           zoomFactor == IF deltaDown THEN RDiv(RInt(1), zoomSpeed) ELSE zoomSpeed
           beforeZoomX == RDiv(RSub(RInt(mouse[1]), translateX), scale)
           beforeZoomY == RDiv(RSub(RInt(mouse[2]), translateY), scale)
           newScale == RMax(Rat(1, 10), RMin(RInt(5), RMul(scale, zoomFactor)))
       IN  SetView(IF newScale = scale THEN View
                   ELSE updateMiniMap(updateTransform(
                          [View EXCEPT
                             !.scale = newScale,
                             !.translateX = RSub(RInt(mouse[1]),
                                                 RMul(beforeZoomX, newScale)),
                             !.translateY = RSub(RInt(mouse[2]),
                                                 RMul(beforeZoomY, newScale))])))
    /\ used' = [used EXCEPT !.wheel = @ + 1, !.at = mouse]
    /\ lastOp' = "handleWheel"
    /\ UNCHANGED <<programVars, pointerVars, searchValue, searchInfo, steps>>

\* a click on the minimap at fraction x of its width
miniMapClick(x) ==
    /\ pc = "ready"
    /\ Gestures < MaxGestures
    /\ SetView(updateMiniMap(updateTransform(
           [View EXCEPT !.translateX =
               RAdd(RMul(RSub(RInt(0), x), RInt(Len(stamps) * cellWidth)),
                    Rat(ContainerWidth, 2))])))
    /\ used' = [used EXCEPT !.pan = @ + 1]
    /\ lastOp' = "miniMapClick"
    /\ UNCHANGED <<programVars, pointerVars, searchValue, searchInfo, steps>>

jumpToEra(era) ==
    /\ Gestures < MaxGestures
    /\ LET later == {i \in DOMAIN stamps : /\ HasYear(stamps[i])
                                            /\ stamps[i].year >= eraYears[era]}
           stamp == CHOOSE i \in later : \A j \in later : i <= j
       IN  /\ SetView(IF later = {} THEN View ELSE jumpToStamp(View, stamp))
           /\ used' = [used EXCEPT
                          !.jump = @ + 1,
                          !.landed = IF later # {} /\ ElementOf(stamp) # 0
                                     THEN @ + 1 ELSE @]
    /\ lastOp' = "jumpToEra"
    /\ UNCHANGED <<programVars, pointerVars, searchValue, searchInfo, steps>>

(***************************************************************************)
(* Search.  The query is what the reader has typed into the search box.    *)
(***************************************************************************)
\* String.prototype.includes
includes(text, word) ==
    \E i \in 0..(Len(text) - Len(word)) : SubSeq(text, i + 1, i + Len(word)) = word

\* searchTerm.split(/\s+/).filter(word => word.length > 0)
RECURSIVE Words(_)
Words(s) ==
    LET t == TrimStart(s)
        spaces == {i \in 1..Len(t) : IsSpace(SubSeq(t, i, i))}
        end == IF spaces = {} THEN Len(t) + 1
               ELSE CHOOSE i \in spaces : \A j \in spaces : i <= j
    IN  IF Len(t) = 0 THEN <<>>
        ELSE <<SubSeq(t, 1, end - 1)>> \o Words(SubSeq(t, end, Len(t)))

synonyms ==
    [red |-> {"crimson", "scarlet", "carmine", "rose"},
     blue |-> {"azure", "navy", "ultramarine", "cobalt"},
     green |-> {"emerald", "forest", "sage", "olive"},
     yellow |-> {"golden", "amber", "lemon"},
     purple |-> {"violet", "magenta", "mauve"},
     brown |-> {"sepia", "tan", "bronze", "chocolate"},
     black |-> {"ebony", "coal"},
     white |-> {"ivory", "cream"},
     orange |-> {"vermillion", "coral"},
     queen |-> {"elizabeth", "victoria", "royal", "monarch"},
     king |-> {"george", "edward", "royal", "monarch"},
     flower |-> {"floral", "bloom", "blossom"},
     bird |-> {"avian", "eagle", "hawk"},
     ship |-> {"vessel", "boat", "maritime"},
     plane |-> {"aircraft", "aviation", "flight"},
     olympics |-> {"olympic", "games", "sport"},
     christmas |-> {"xmas", "holiday", "noel"},
     maple |-> {"leaf", "canada"},
     beaver |-> {"animal", "fur"},
     flag |-> {"banner", "ensign"},
     cent |-> {"¢", "cents", "penny"},
     dollar |-> {"$", "dollars"},
     pence |-> {"penny", "pennies", "d"},
     cartier |-> {"carteer", "cartiar"},
     centennial |-> {"centinal", "centenial"},
     commemor |-> {"commem", "memorial"},
     definitiv |-> {"defin", "regular"}]

fuzzyMatch(text, word) ==
    LET wordVariations == {word} \cup (IF word \in DOMAIN synonyms
                                       THEN synonyms[word] ELSE {})
    IN  \/ \E key \in DOMAIN synonyms :
              word \in synonyms[key] /\ includes(text, key)
        \/ \E variation \in wordVariations : includes(text, variation)

matchesSearchTerm(stamp, searchTerm) ==
    \A k \in DOMAIN Words(searchTerm) :
        LET word == Words(searchTerm)[k]
        IN  includes(stamp.searchText, word)
            \/ fuzzyMatch(stamp.searchText, word)

WordScore(stamp, word) ==
    (IF includes(toLowerCase(stamp.mainTopic), word)
     THEN (IF toLowerCase(stamp.mainTopic) = word THEN 100 ELSE 50) ELSE 0)
    + (IF includes(toLowerCase(stamp.subTopic), word)
       THEN (IF toLowerCase(stamp.subTopic) = word THEN 80 ELSE 40) ELSE 0)
    + (IF includes(toLowerCase(stamp.color), word) THEN 30 ELSE 0)
    + (IF includes(toLowerCase(stamp.denomination), word) THEN 25 ELSE 0)
    + (IF includes(toLowerCase(stamp.notes), word) THEN 20 ELSE 0)
    + (IF includes(toLowerCase(stamp.id), word) THEN 15 ELSE 0)
    + (IF HasYear(stamp) /\ includes(ToString(stamp.year), word)
       THEN 10 ELSE 0)

RECURSIVE SumScores(_, _)
SumScores(stamp, words) ==
    IF words = <<>> THEN 0
    ELSE WordScore(stamp, Head(words)) + SumScores(stamp, Tail(words))

calculateRelevanceScore(stamp, searchTerm) ==
    SumScores(stamp, Words(searchTerm))

\* a comparator that leaves the score out
compareMatchesByYear(a, b, searchTerm) == stamps[a].year - stamps[b].year

\* the comparator of handleSearch: higher score first, then the earlier year
compareMatches(a, b, searchTerm) ==
    LET scoreA == calculateRelevanceScore(stamps[a], searchTerm)
        scoreB == calculateRelevanceScore(stamps[b], searchTerm)
    IN  IF scoreA # scoreB THEN scoreB - scoreA
        ELSE IF HasYear(stamps[a]) /\ HasYear(stamps[b])
        THEN stamps[a].year - stamps[b].year
        ELSE 0

RECURSIVE InsertMatch(_, _, _)
InsertMatch(s, x, searchTerm) ==
    IF s = <<>> THEN <<x>>
    ELSE LET last == s[Len(s)]
         IN  IF compareMatches(last, x, searchTerm) <= 0 THEN Append(s, x)
             ELSE Append(InsertMatch(SubSeq(s, 1, Len(s) - 1), x, searchTerm),
                         last)

RECURSIVE SortMatches(_, _)
SortMatches(s, searchTerm) ==
    IF s = <<>> THEN <<>>
    ELSE InsertMatch(SortMatches(SubSeq(s, 1, Len(s) - 1), searchTerm),
                     s[Len(s)], searchTerm)

updateSearchInfo(matches, index, value) ==
    IF Len(matches) > 0
    THEN [shown |-> TRUE, current |-> index + 1, total |-> Len(matches)]
    ELSE IF trim(value) # ""
    THEN [shown |-> TRUE, current |-> 0, total |-> 0]
    ELSE [searchInfo EXCEPT !.shown = FALSE]

\* a filter that treats every query as text
filterMatchesByText(query) ==
    SelectSeq([i \in 1..Len(stamps) |-> i],
              LAMBDA i : matchesSearchTerm(stamps[i], trim(toLowerCase(query))))

\* the matches of handleSearch before they are sorted: a query that parses
\* to a year of 1800..2030 selects by year, any other query by text
filterMatches(query) ==
    LET searchTerm == trim(toLowerCase(query))
        yearMatch == parseInt(query)
        isYear == ~IsNaN(query) /\ yearMatch >= 1800 /\ yearMatch <= 2030
    IN  SelectSeq([i \in 1..Len(stamps) |-> i],
                  LAMBDA i : IF isYear THEN /\ HasYear(stamps[i])
                                            /\ stamps[i].year = yearMatch
                             ELSE matchesSearchTerm(stamps[i], searchTerm))

\* the input listener of the search box
handleSearch(query) ==
    /\ pc = "ready"
    /\ used.search < MaxSearches
    /\ searchValue' = query
    /\ LET searchTerm == trim(toLowerCase(query))
           found == filterMatches(query)
           matches == SortMatches(found, searchTerm)
           cleared == clearSearchHighlights(View)
           marked == highlightMatches([cleared EXCEPT !.matches = matches,
                                                      !.index = 0])
       IN  IF trim(query) = ""
           THEN /\ SetView([cleared EXCEPT !.matches = <<>>, !.index = 0])
                /\ searchInfo' = updateSearchInfo(<<>>, 0, query)
           ELSE /\ SetView(IF matches # <<>> THEN jumpToStamp(marked, matches[1])
                           ELSE marked)
                /\ searchInfo' = updateSearchInfo(matches, 0, query)
    /\ steps' = 0
    /\ used' = [used EXCEPT !.search = @ + 1]
    /\ lastOp' = "handleSearch"
    /\ UNCHANGED <<programVars, pointerVars>>

nextMatch(V) ==
    LET W == [V EXCEPT !.index = (V.index + 1) % Len(V.matches)]
    IN  highlightMatches(jumpToStamp(W, W.matches[W.index + 1]))

\* a step back that does not wrap around at the first match
previousMatchNoWrap(V) ==
    LET W == [V EXCEPT !.index = IF V.index = 0 THEN 0 ELSE V.index - 1]
    IN  highlightMatches(jumpToStamp(W, W.matches[W.index + 1]))

previousMatch(V) ==
    LET W == [V EXCEPT !.index =
                 (V.index - 1 + Len(V.matches)) % Len(V.matches)]
    IN  highlightMatches(jumpToStamp(W, W.matches[W.index + 1]))

\* Enter in the search box: the next match, with Shift the previous one
handleSearchKeys(shiftKey) ==
    /\ pc = "ready"
    /\ currentMatches # <<>>
    /\ steps' = IF shiftKey THEN steps - 1 ELSE steps + 1
    /\ steps' \in (0 - MaxSteps)..MaxSteps
    /\ LET V == IF shiftKey THEN previousMatch(View) ELSE nextMatch(View)
       IN  /\ SetView(V)
           /\ searchInfo' = updateSearchInfo(V.matches, V.index, searchValue)
    /\ lastOp' = IF shiftKey THEN "previousMatch" ELSE "nextMatch"
    /\ UNCHANGED <<programVars, pointerVars, searchValue, used>>

(***************************************************************************)
(* The desktop application with its view and search handlers, on the       *)
(* sample data and on a catalog of three stamps of one year.               *)
(***************************************************************************)
ViewDocuments ==
    {[ok |-> FALSE, stamps |-> <<>>],
     [ok |-> TRUE, stamps |-> <<RecTenA, RecTwo, RecTen>>]}

Queries == {"", "1851", "Beaver", "carteer", " queen  1851 ", "queen"}

\* the catalogs of the search: those of the view and one whose records tie
\* and differ in relevance
SearchDocuments ==
    ViewDocuments
    \cup {[ok |-> TRUE,
           stamps |-> <<RecElizabeth, RecDam, RecTenA, RecTwo, RecTen>>]}

InitSearch ==
    /\ config = DesktopConfig
    /\ document \in SearchDocuments
    /\ InitRender
    /\ InitImages
    /\ InitUi

InitView ==
    /\ config = DesktopConfig
    /\ document \in ViewDocuments
    /\ InitRender
    /\ InitImages
    /\ InitUi

ViewNext ==
    \/ zoomIn
    \/ zoomOut
    \/ resetView
    \/ \E d \in {<<0, 100>>, <<0, -100>>, <<100, 0>>, <<-100, 0>>} :
          navClick(d[1], d[2])
    \/ \E checked \in BOOLEAN : panModeToggle(checked)
    \/ \E key \in Keys, ctrlKey \in BOOLEAN, inInput \in BOOLEAN :
          handleKeyDown(key, ctrlKey, inInput)
    \/ \E key \in Keys : handleKeyUp(key)
    \/ \E point \in MousePoints, isRightClick \in BOOLEAN, onStamp \in BOOLEAN :
          startDrag(point, isRightClick, onStamp)
    \/ \E point \in MousePoints : drag(point)
    \/ endDrag
    \/ \E mouse \in MousePoints, deltaDown \in BOOLEAN, ctrlKey \in BOOLEAN :
          handleWheel(mouse, deltaDown, ctrlKey)
    \/ \E x \in MiniMapPoints : miniMapClick(x)
    \/ \E era \in DOMAIN eraYears : jumpToEra(era)

SearchNext ==
    \/ \E query \in Queries : handleSearch(query)
    \/ \E shiftKey \in BOOLEAN : handleSearchKeys(shiftKey)

NextView ==
    \/ loadStamps
    \/ renderStampsVirtual
    \/ \E batches \in 1..MaxFrameBatches : renderBatch(batches)
    \/ ViewNext

SpecView == InitView /\ [][NextView]_vars

NextSearch ==
    \/ loadStamps
    \/ renderStampsVirtual
    \/ \E batches \in 1..MaxFrameBatches : renderBatch(batches)
    \/ SearchNext

SpecSearch == InitSearch /\ [][NextSearch]_vars

(***************************************************************************)
(* The desktop application on every catalog document: rendering, with the  *)
(* image callbacks interleaved.                                            *)
(***************************************************************************)
RenderNext ==
    \/ loadStamps
    \/ renderStampsVirtual
    \/ \E batches \in 1..MaxFrameBatches : renderBatch(batches)
    \/ resumeRender

ImageNext(limit) ==
    \/ \E node \in vpObserved : viewportEnter(node, limit)
    \/ \E img \in lazyObserved : lazyEnter(img, limit)
    \/ \E node \in vpObserved, far \in BOOLEAN : viewportLeave(node, far)
    \/ \E item \in BagToSet(inFlight) : imageLoaded(item)
    \/ \E item \in BagToSet(inFlight) : imageFailed(item)
    \/ queueTimer

NoiseQueries == {"1851", "1952"}

\* the reader zooms, pans and searches while the catalog renders
UiNoise ==
    /\ used.zoom + Gestures + used.search < RenderNoise
    /\ \/ zoomIn
       \/ zoomOut
       \/ \E d \in {<<0, 100>>, <<-100, 0>>} : navClick(d[1], d[2])
       \/ \E query \in NoiseQueries : handleSearch(query)

Next ==
    \/ RenderNext
    \/ ImageNext(RenderReports)
    \/ UiNoise

Spec == Init /\ [][Next]_vars

(***************************************************************************)
(* Properties of rendering.                                                *)
(***************************************************************************)
\* the render queue has drained after renderStampsVirtual started it
RenderDone == pc = "ready" /\ renderQueue = <<>>

\* the records of the stamp nodes, in document order
NodeOrder == [k \in DOMAIN StampNodes(grid) |-> StampNodes(grid)[k].rec]

\* the positions in this.stamps, ascending, of the records that carry the
\* required field mainTopic
Renderable ==
    SelectSeq([i \in 1..Len(stamps) |-> i],
              LAMBDA i : "mainTopic" \in stamps[i].fields)

\* a is not behind b in the order year ascending, then numeric id ascending
InSortOrder(a, b) ==
    \/ a.year < b.year
    \/ /\ a.year = b.year
       /\ (IsNaN(a.id) \/ IsNaN(b.id) \/ parseInt(a.id) <= parseInt(b.id))

GridDecades == {grid[k].decade : k \in {j \in DOMAIN grid : grid[j].kind = "stamp"}}

\* the positions of the markers of decade d
MarkersOf(d) == {k \in DOMAIN grid : grid[k] = MarkerNode(d)}

\* the position of the first stamp node of decade d
FirstStampOf(d) ==
    CHOOSE k \in DOMAIN grid :
        /\ grid[k].kind = "stamp" /\ grid[k].decade = d
        /\ \A j \in 1..(k - 1) : ~(grid[j].kind = "stamp" /\ grid[j].decade = d)

\* C2: once the render queue has drained, every decade that has a stamp in
\* the grid has exactly one decade marker, and that marker is the node
\* immediately before the first stamp node of the decade; the catalog of the
\* years 1851, 1852, 1935 gives the markers 1850s and 1930s and three stamp
\* nodes in that order.
C2_DecadeMarkers ==
    RenderDone =>
        /\ \A d \in GridDecades : MarkersOf(d) = {FirstStampOf(d) - 1}
        /\ stamps = createSampleData =>
               grid = <<MarkerNode(1850), StampNode(1850, 1), StampNode(1850, 2),
                        MarkerNode(1930), StampNode(1930, 3)>>

\* the sample catalog has drained, and so has a catalog of several decades
\* whose rendering took more than one frame
C2_Witness ==
    /\ RenderDone
    /\ \/ stamps = createSampleData /\ Len(grid) = 5
       \/ Len(stamps) > batchSize /\ Cardinality(GridDecades) > 2
    /\ Cardinality(GridDecades) >= 2

\* the stamp nodes of record i
NodesOf(i) == {k \in DOMAIN grid : grid[k].kind = "stamp" /\ grid[k].rec = i}

\* C3: whenever the render queue is empty after rendering started, every
\* record of the catalog that carries the required fields has exactly one
\* stamp node, none is lost and none rendered twice, whatever image
\* callbacks, zooms, pans and searches ran between the render batches.
C3_OneNodePerRecord ==
    RenderDone =>
        /\ \A i \in 1..Len(stamps) :
               "mainTopic" \in stamps[i].fields => Cardinality(NodesOf(i)) = 1
        /\ Len(StampNodes(grid)) <= Len(stamps)

\* a catalog rendered over several frames has drained with an image fetch
\* started, and with a search run between the frames: its matches were not
\* rendered yet and so carry no highlight
C3_Witness ==
    /\ RenderDone
    /\ Len(stamps) > batchSize
    /\ Len(StampNodes(grid)) = Len(stamps)
    /\ started # {}
    /\ currentMatches # <<>> /\ searchCurrent = {}

(***************************************************************************)
(* The image lifecycle on small catalogs: the sample data and a catalog    *)
(* of two records that share one image path.                               *)
(***************************************************************************)
ImageDocuments ==
    {[ok |-> FALSE, stamps |-> <<>>],
     [ok |-> TRUE, stamps |-> <<RecShared, Sample3>>]}

InitImage ==
    /\ config = DesktopConfig
    /\ document \in ImageDocuments
    /\ InitRender
    /\ InitImages
    /\ InitUi

NextImage ==
    \/ loadStamps
    \/ renderStampsVirtual
    \/ \E batches \in 1..MaxFrameBatches : renderBatch(batches)
    \/ ImageNext(MaxReports)

SpecImage == InitImage /\ [][NextImage]_vars

(***************************************************************************)
(* Properties of the image lifecycle.                                      *)
(***************************************************************************)
\* the nodes that have a request waiting in the queue
Queued == {preloadQueue[k].node : k \in DOMAIN preloadQueue}

CachedHandles == {imageCache[k].value : k \in DOMAIN imageCache}

\* C5: a handle that was freed is in no entry of the cache map, and no
\* step assigns a freed handle to the image of a node (a node that
\* re-enters the viewport after its eviction gets a newly fetched handle).
C5_EvictionRemovesEntry ==
    [][/\ CachedHandles' \cap revoked' = {}
       /\ \A i \in DOMAIN imgSrc' :
              (i \notin DOMAIN imgSrc \/ imgSrc'[i] # imgSrc[i])
                  => imgSrc'[i] \notin revoked]_vars

(***************************************************************************)
(* The mobile revision while a reader scrolls forward through a long       *)
(* catalog, one stamp at a time: the viewport observer reports the next    *)
(* stamp in document order once rendering is done and the loader is idle,  *)
(* every fetch succeeds, and the sweep timer fires at any moment.          *)
(***************************************************************************)
InitSweep ==
    /\ config = MobileConfig
    /\ document = [ok |-> TRUE, stamps |-> SweepDoc]
    /\ InitRender
    /\ InitImages
    /\ InitUi

\* the first stamp in document order that no observer has reported yet
NextUnseen(node) == node \notin reported /\ \A m \in 1..(node - 1) : m \in reported

\* nothing is being rendered, fetched or queued
Idle ==
    /\ ~isRendering
    /\ inFlight = EmptyBag /\ preloadQueue = <<>> /\ timers = 0

\* the stamps the reader has scrolled past
ScrolledPast == {n \in vpObserved : n \in reported /\ (n + 1) \in reported}

NextSweep ==
    \/ loadStamps
    \/ renderStampsVirtual
    \/ \E batches \in 1..MaxFrameBatches : renderBatch(batches)
    \/ resumeRender
    \/ \E node \in vpObserved :
           Idle /\ NextUnseen(node) /\ viewportEnter(node, SweepCatalog)
    \/ \E item \in BagToSet(inFlight) : imageLoaded(item)
    \/ queueTimer
    \/ \E far \in {{}, ScrolledPast} : aggressiveCleanup(far)

SpecSweep == InitSweep /\ [][NextSweep]_vars

\* C6: after each run of the periodic sweep the image cache holds at most
\* maxCacheSize entries, whatever scrolling and loading preceded the run.
C6_SweepRestoresCeiling ==
    lastOp = "aggressiveCleanup" => Len(imageCache) <= config.maxCacheSize

(***************************************************************************)
(* The adaptive revision on both platforms, on the small catalogs.         *)
(***************************************************************************)
InitAdaptive ==
    /\ config \in {AdaptiveDesktopConfig, AdaptiveMobileConfig}
    /\ document \in ImageDocuments
    /\ InitRender
    /\ InitImages
    /\ InitUi

NextAdaptive ==
    \/ loadStamps
    \/ \E batches \in 1..MaxFrameBatches : renderStampsAdaptive(batches)
    \/ renderProgressiveBatch
    \/ \E img \in vpObserved \X {0} : adaptiveEnter(img, MaxReports)
    \/ \E img \in preloadTimers : preloadTimer(img)
    \/ \E node \in vpObserved, far \in BOOLEAN : viewportLeave(node, far)
    \/ \E item \in BagToSet(inFlight) : adaptiveLoaded(item)
    \/ \E item \in BagToSet(inFlight) : adaptiveFailed(item)

SpecAdaptive == InitAdaptive /\ [][NextAdaptive]_vars

\* the image path of node i has a handle in the cache
Cached(i) == CacheHas(imageCache, stamps[i].image)

\* C7: in every reachable state at most maxConcurrentLoads fetches are
\* active, and a load request beyond the ceiling waits in the queue: a stamp
\* an observer reported is being or was fetched, has a cached handle, or
\* has its request in the queue.
C7_CeilingAndQueue ==
    /\ currentLoads <= config.maxConcurrentLoads
    /\ \A i \in reported : i \in started \/ i \in Queued \/ Cached(i)

(***************************************************************************)
(* Claims about the view, under SpecView, and the search, under SpecSearch.*)
(***************************************************************************)
\* the constructor's values of scale and translate
initialScale == Rat(3, 10)
initialTranslate == RInt(0)

\* C8: whatever pans, zooms and jumps came before, a reset leaves scale at
\* 0.3 and translate at (0, 0), the constructor's values, and a reset that
\* follows a reset changes nothing at all.
C8_ResetRestoresInitial ==
    [][/\ lastOp' = "centerView" =>
              /\ scale' = initialScale
              /\ translateX' = initialTranslate
              /\ translateY' = initialTranslate
              /\ applied' = [x |-> initialTranslate, y |-> initialTranslate,
                             scale |-> initialScale]
       /\ (lastOp = "centerView" /\ lastOp' = "centerView") =>
              UNCHANGED <<programVars, transformVars, pointerVars,
                          searchVars>>]_vars

\* a reset has run after a zoom, a pan and a jump to a rendered stamp
C8_Witness ==
    /\ lastOp = "centerView"
    /\ scale = initialScale /\ translateX = initialTranslate
    /\ used.zoom > 0 /\ used.pan > 0 /\ used.landed > 0

minScale == Rat(1, 10)
maxScale == RInt(5)

\* C9: in every reachable state the scale is positive and lies between 0.1
\* and 5, whatever wheel events, zoom buttons, jumps and resets have run.
C9_ScaleInRange ==
    /\ scale[1] > 0 /\ scale[2] > 0
    /\ ~RLess(scale, minScale)
    /\ ~RLess(maxScale, scale)

\* the zoom buttons have driven the scale into a clamp
C9_Witness ==
    /\ lastOp \in {"zoomIn", "zoomOut"}
    /\ scale \in {minScale, maxScale}

\* C10: on a match list of n >= 1 results the current-match index is the
\* net number of next() steps since the search, modulo n; so n next() calls
\* return to the start and a previous() undoes a next().
C10_IndexCyclesModulo ==
    currentMatches # <<>> =>
        currentMatchIndex = steps % Len(currentMatches)

\* three next() calls on a three-match list are back at index 0
C10_Witness ==
    /\ Len(currentMatches) = 3
    /\ steps = 3
    /\ lastOp = "nextMatch"
    /\ currentMatchIndex = 0

(***************************************************************************)
(* The paginated revision (src/unnamed/part_003, first class).  init()     *)
(* loads the catalog and then takes the mobile path, which shows pages of  *)
(* stampsPerPage records and a search of its own, or the desktop path,     *)
(* which renders the grid as app.js does.  The static markup of            *)
(* #mobile-results is not part of the sources: mobileResults.kind is       *)
(* "static" until the program writes the container.                        *)
(***************************************************************************)
PagedCatalog == 31

PagedDoc == [i \in 1..PagedCatalog |-> SweepRec(i)]

PaginatedDocuments ==
    {[ok |-> FALSE, stamps |-> <<>>],
     [ok |-> TRUE, stamps |-> <<>>],
     [ok |-> TRUE, stamps |-> <<RecTenA, RecTwo, RecTen>>],
     [ok |-> TRUE, stamps |-> PagedDoc]}

PaginatedQueries == {"", "1851", "Queen", "elizabeth"}

Mobile ==
    [currentPage |-> currentPage, totalPages |-> totalPages,
     mobileViewMode |-> mobileViewMode, mobileResults |-> mobileResults,
     paginationControls |-> paginationControls]

SetMobile(M) ==
    /\ currentPage' = M.currentPage
    /\ totalPages' = M.totalPages
    /\ mobileViewMode' = M.mobileViewMode
    /\ mobileResults' = M.mobileResults
    /\ paginationControls' = M.paginationControls

\* Math.floor(n / d) for n >= 0
Floor(n, d) == n \div d

\* Math.ceil(n / d) for n >= 0
Ceil(n, d) == (n + d - 1) \div d

RECURSIVE Reverse(_)
Reverse(s) == IF s = <<>> THEN <<>> ELSE Append(Reverse(Tail(s)), Head(s))

renderMobileResults(M, items) ==
    IF items = <<>>
    THEN [M EXCEPT !.mobileResults =
             [kind |-> "message",
              text |-> IF M.mobileViewMode = "search"
                       THEN "No stamps found for your search."
                       ELSE "No stamps to display.",
              items |-> <<>>]]
    ELSE [M EXCEPT !.mobileResults =
             [kind |-> "stamps", text |-> "", items |-> items]]

renderPaginationControls(M, page, total, mode) ==
    IF mode = "search" \/ total <= 1
    THEN [M EXCEPT !.paginationControls =
             [shown |-> FALSE, page |-> 0, total |-> 0]]
    ELSE [M EXCEPT !.paginationControls =
             [shown |-> TRUE, page |-> page, total |-> total]]

renderMobilePage(M, page) ==
    IF page < 1 \/ page > M.totalPages THEN M
    ELSE LET totalStamps == Len(stamps)
             startIndex == totalStamps - page * stampsPerPage
             endIndex == totalStamps - (page - 1) * stampsPerPage
             safeStartIndex == IF startIndex < 0 THEN 0 ELSE startIndex
             safeEndIndex == IF endIndex > totalStamps THEN totalStamps
                             ELSE endIndex
             pageStamps == Reverse([k \in 1..(safeEndIndex - safeStartIndex)
                                      |-> safeStartIndex + k])
             M1 == [M EXCEPT !.currentPage = page, !.mobileViewMode = "browse"]
             M2 == renderMobileResults(M1, pageStamps)
         IN  renderPaginationControls(M2, M2.currentPage, M2.totalPages,
                                      "browse")

\* the continuation of init() behind `await this.loadStamps()' on the mobile
\* path
initMobile ==
    /\ pc = "loaded"
    /\ config.revision = "paginated" /\ config.isMobile
    /\ pc' = "ready"
    /\ document' = [ok |-> document.ok, stamps |-> <<>>]
    /\ bodyClasses' = bodyClasses \cup {"is-mobile-device"}
    /\ SetMobile(renderMobilePage(
           [Mobile EXCEPT !.totalPages = Ceil(Len(stamps), stampsPerPage)], 1))
    /\ lastOp' = "init"
    /\ UNCHANGED <<config, stamps, renderQueue, renderedDecades, isRendering,
                   frames, grid, emptyMessage, vpObserved>>
    /\ UNCHANGED <<imageVars, adaptiveVars, errorVars, observerVars>>
    /\ UNCHANGED <<transformVars, isDragging, lastX, lastY, isShiftPressed,
                   panMode, cursor, searchVars, used, steps>>

\* a click on an enabled button of the pagination controls
pageClick(delta) ==
    /\ pc = "ready"
    /\ config.revision = "paginated" /\ config.isMobile
    /\ paginationControls.shown
    /\ delta = 1 => paginationControls.page < paginationControls.total
    /\ delta = (0 - 1) => paginationControls.page > 1
    /\ SetMobile(renderMobilePage(Mobile, currentPage + delta))
    /\ lastOp' = "renderMobilePage"
    /\ UNCHANGED <<renderVars, imageVars, adaptiveVars, errorVars,
                   observerVars, uiVars>>

\* the comparator of the mobile search
compareMobileResults(a, b, query) ==
    LET scoreA == calculateRelevanceScore(stamps[a], query)
        scoreB == calculateRelevanceScore(stamps[b], query)
    IN  IF scoreA # scoreB THEN scoreB - scoreA
        ELSE comparePaginated(stamps[a], stamps[b])

RECURSIVE InsertMobileResult(_, _, _)
InsertMobileResult(s, x, query) ==
    IF s = <<>> THEN <<x>>
    ELSE LET last == s[Len(s)]
         IN  IF compareMobileResults(last, x, query) <= 0 THEN Append(s, x)
             ELSE Append(InsertMobileResult(SubSeq(s, 1, Len(s) - 1), x, query),
                         last)

RECURSIVE SortMobileResults(_, _)
SortMobileResults(s, query) ==
    IF s = <<>> THEN <<>>
    ELSE InsertMobileResult(SortMobileResults(SubSeq(s, 1, Len(s) - 1), query),
                            s[Len(s)], query)

\* lines 162-181: the filter and the sort of the mobile search
mobileSearchResults(query) ==
    LET found == SelectSeq([i \in 1..Len(stamps) |-> i],
                           LAMBDA i : includes(stamps[i].searchText, query))
    IN  SortMobileResults(found, query)

\* the input listener of the mobile search box
mobileSearchInput(value) ==
    /\ pc = "ready"
    /\ config.revision = "paginated" /\ config.isMobile
    /\ used.search < MaxSearches
    /\ LET query == trim(toLowerCase(value))
           results == mobileSearchResults(query)
           M1 == [Mobile EXCEPT !.mobileViewMode = "search"]
       IN  IF Len(query) < 3
           THEN IF Len(query) = 0 /\ mobileViewMode = "search"
                THEN SetMobile(renderMobilePage(
                         [Mobile EXCEPT !.mobileViewMode = "browse"], 1))
                ELSE UNCHANGED mobileVars
           ELSE SetMobile(renderPaginationControls(
                    renderMobileResults(M1, results), 0, 0, "search"))
    /\ used' = [used EXCEPT !.search = @ + 1]
    /\ lastOp' = "mobileSearch"
    /\ UNCHANGED <<renderVars, imageVars, adaptiveVars, errorVars,
                   observerVars>>
    /\ UNCHANGED <<transformVars, pointerVars, searchVars, steps>>

\* the desktop path: the timeline viewport follows translateX and scale
\* once the grid has content
updateTimeline(V) ==
    IF grid = <<>> THEN V
    ELSE [V EXCEPT !.miniMap = [@ EXCEPT !.x = V.translateX,
                                         !.scale = V.scale,
                                         !.drawn = TRUE]]

\* the offsets of getBoundingClientRect are divided by the new scale and
\* multiplied by it again; the width and height are taken as they are
jumpToStampPaginated(V, i) ==
    LET k == ElementOf(i)
        newScale == RMax(RInt(1), V.scale)
        stampX == RDiv(RMul(RInt(LocalX(k)), V.applied.scale), newScale)
        stampY == RDiv(RMul(RInt(LocalY(k)), V.applied.scale), newScale)
        width == RMul(RInt(cellWidth), V.applied.scale)
        height == RMul(RInt(cellHeight), V.applied.scale)
        W == [V EXCEPT
                !.scale = newScale,
                !.translateX =
                    RSub(Rat(ContainerWidth, 2),
                         RAdd(RMul(stampX, newScale), RDiv(width, RInt(2)))),
                !.translateY =
                    RSub(Rat(ContainerHeight, 2),
                         RAdd(RMul(stampY, newScale), RDiv(height, RInt(2))))]
    IN  IF k = 0 THEN V
        ELSE highlightMatches(updateTimeline(updateTransform(W)))

synonymsPaginated ==
    [red |-> {"crimson", "scarlet"},
     blue |-> {"azure", "navy"},
     green |-> {"emerald", "forest"},
     queen |-> {"elizabeth", "victoria"},
     king |-> {"george", "edward"},
     cent |-> {"¢", "cents"},
     dollar |-> {"$"}]

fuzzyMatchPaginated(text, word) ==
    LET wordVariations == {word} \cup (IF word \in DOMAIN synonymsPaginated
                                       THEN synonymsPaginated[word] ELSE {})
    IN  \/ \E key \in DOMAIN synonymsPaginated :
              word \in synonymsPaginated[key] /\ includes(text, key)
        \/ \E variation \in wordVariations : includes(text, variation)

matchesSearchTermPaginated(stamp, searchTerm) ==
    \A k \in DOMAIN Words(searchTerm) :
        LET word == Words(searchTerm)[k]
        IN  includes(stamp.searchText, word)
            \/ fuzzyMatchPaginated(stamp.searchText, word)

\* lines 1024-1037 of handleSearch: the filter and the sort
searchMatchesPaginated(query) ==
    LET searchTerm == trim(toLowerCase(query))
        yearMatch == parseInt(query)
        isYear == ~IsNaN(query) /\ yearMatch >= 1800 /\ yearMatch <= 2030
        found == SelectSeq([i \in 1..Len(stamps) |-> i],
                           LAMBDA i :
                              IF isYear THEN /\ HasYear(stamps[i])
                                             /\ stamps[i].year = yearMatch
                              ELSE matchesSearchTermPaginated(stamps[i],
                                                              searchTerm))
    IN  SortMatches(found, searchTerm)

\* the input listener of the desktop search box; a cleared query empties
\* the match list and leaves currentMatchIndex as it is
handleSearchPaginated(query) ==
    /\ pc = "ready"
    /\ config.revision = "paginated" /\ ~config.isMobile
    /\ used.search < MaxSearches
    /\ searchValue' = query
    /\ LET matches == searchMatchesPaginated(query)
           cleared == clearSearchHighlights(View)
           marked == highlightMatches([cleared EXCEPT !.matches = matches,
                                                      !.index = 0])
       IN  IF trim(query) = ""
           THEN /\ SetView([cleared EXCEPT !.matches = <<>>])
                /\ searchInfo' = updateSearchInfo(<<>>, currentMatchIndex, query)
           ELSE /\ SetView(IF matches # <<>>
                           THEN jumpToStampPaginated(marked, matches[1])
                           ELSE marked)
                /\ searchInfo' = updateSearchInfo(matches, 0, query)
    /\ steps' = 0
    /\ used' = [used EXCEPT !.search = @ + 1]
    /\ lastOp' = "handleSearch"
    /\ UNCHANGED <<programVars, pointerVars>>

nextMatchPaginated(V) ==
    LET W == [V EXCEPT !.index = (V.index + 1) % Len(V.matches)]
    IN  highlightMatches(jumpToStampPaginated(W, W.matches[W.index + 1]))

previousMatchPaginated(V) ==
    LET W == [V EXCEPT !.index =
                 (V.index - 1 + Len(V.matches)) % Len(V.matches)]
    IN  highlightMatches(jumpToStampPaginated(W, W.matches[W.index + 1]))

handleSearchKeysPaginated(shiftKey) ==
    /\ pc = "ready"
    /\ config.revision = "paginated" /\ ~config.isMobile
    /\ currentMatches # <<>>
    /\ steps' = IF shiftKey THEN steps - 1 ELSE steps + 1
    /\ steps' \in (0 - MaxSteps)..MaxSteps
    /\ LET V == IF shiftKey THEN previousMatchPaginated(View)
                ELSE nextMatchPaginated(View)
       IN  /\ SetView(V)
           /\ searchInfo' = updateSearchInfo(V.matches, V.index, searchValue)
    /\ lastOp' = IF shiftKey THEN "previousMatch" ELSE "nextMatch"
    /\ UNCHANGED <<programVars, pointerVars, searchValue, used>>

InitPaginated ==
    /\ config \in {PaginatedDesktopConfig, PaginatedMobileConfig}
    /\ document \in PaginatedDocuments
    /\ InitRender
    /\ InitImages
    /\ InitUi

NextPaginated ==
    \/ loadStamps
    \/ renderStampsVirtual
    \/ initMobile
    \/ \E batches \in 1..MaxFrameBatches : renderBatch(batches)
    \/ resumeRender
    \/ \E delta \in {0 - 1, 1} : pageClick(delta)
    \/ \E value \in PaginatedQueries : mobileSearchInput(value)
    \/ \E query \in PaginatedQueries : handleSearchPaginated(query)
    \/ \E shiftKey \in BOOLEAN : handleSearchKeysPaginated(shiftKey)

SpecPaginated == InitPaginated /\ [][NextPaginated]_vars

(***************************************************************************)
(* C11.  After any sequence of queries, next() and previous(): with a      *)
(* non-empty match list the index of the current match lies in             *)
(* 0 .. length - 1, and with an empty match list (a cleared query or a     *)
(* query without match) the index is 0.                                    *)
(***************************************************************************)
C11_IndexInRange ==
    IF currentMatches = <<>> THEN currentMatchIndex = 0
    ELSE currentMatchIndex \in 0..(Len(currentMatches) - 1)

(***************************************************************************)
(* C12.  After a query, next() or previous() that leaves a non-empty match *)
(* list, exactly one node carries search-current, namely the node of the   *)
(* current match, the nodes of all other matches carry search-match, and   *)
(* no node of a record outside the match list carries either class.        *)
(***************************************************************************)
SearchOps == {"handleSearch", "nextMatch", "previousMatch"}

C12_MarkersMatchList ==
    (lastOp \in SearchOps /\ currentMatches # <<>>)
        => LET current == currentMatches[currentMatchIndex + 1]
           IN  /\ searchCurrent = {current}
               /\ searchMatch = Range(currentMatches) \ {current}

(***************************************************************************)
(* C13.  A query that is a pure integer of the year range 1800..2030       *)
(* returns exactly the records whose year is that integer: a record that   *)
(* holds the digits in its id or notes only is not returned.               *)
(***************************************************************************)
IsPureInteger(s) ==
    Len(s) > 0 /\ \A i \in 1..Len(s) : IsDigit(SubSeq(s, i, i))

IsYearQuery(s) ==
    IsPureInteger(s) /\ parseInt(s) >= 1800 /\ parseInt(s) <= 2030

C13_YearQueryByYearOnly ==
    IsYearQuery(searchValue)
        => Range(currentMatches) =
               {i \in DOMAIN stamps : stamps[i].year = parseInt(searchValue)}

\* a year query with matches that left out a record holding the digits in
\* its id and notes
C13_Witness ==
    /\ IsYearQuery(searchValue)
    /\ currentMatches # <<>>
    /\ \E i \in DOMAIN stamps :
           /\ includes(stamps[i].searchText, searchValue)
           /\ stamps[i].year # parseInt(searchValue)
           /\ i \notin Range(currentMatches)

(***************************************************************************)
(* C14.  For every query term and every two matches A and B where A's      *)
(* mainTopic equals the term and B's mainTopic only contains it, A comes   *)
(* before B in the match list.  Topics and term compare in lower case, as  *)
(* calculateRelevanceScore compares them.                                  *)
(***************************************************************************)
TopicIs(i, term) == toLowerCase(stamps[i].mainTopic) = term

TopicContains(i, term) ==
    /\ includes(toLowerCase(stamps[i].mainTopic), term)
    /\ toLowerCase(stamps[i].mainTopic) # term

C14_ExactTopicFirst ==
    LET term == trim(toLowerCase(searchValue))
    IN  \A a, b \in DOMAIN currentMatches :
            (/\ TopicIs(currentMatches[a], term)
             /\ TopicContains(currentMatches[b], term))
                => a < b

(***************************************************************************)
(* C15.  The match list of a query is ordered by descending relevance      *)
(* score, and two matches of equal score stand in catalog order, the       *)
(* chronological order loadStamps gave this.stamps.                        *)
(***************************************************************************)
ScoreOf(k) ==
    calculateRelevanceScore(stamps[currentMatches[k]],
                            trim(toLowerCase(searchValue)))

C15_ScoreThenCatalogOrder ==
    \A a, b \in DOMAIN currentMatches :
        a < b => /\ ScoreOf(a) >= ScoreOf(b)
                 /\ ScoreOf(a) = ScoreOf(b) => currentMatches[a] < currentMatches[b]

\* a match list whose best match is the last of the catalog and whose other
\* two matches tie
C15_Witness ==
    /\ Len(currentMatches) = 3
    /\ ScoreOf(1) > ScoreOf(2)
    /\ currentMatches[1] > currentMatches[2]
    /\ ScoreOf(2) = ScoreOf(3)
    /\ lastOp = "handleSearch"

(***************************************************************************)
(* C16.  When the fetch of an item fails, the item's node shows the        *)
(* topic-text placeholder afterwards, the cache gets no entry, and the     *)
(* render queue, the grid, the view and the image state of every other     *)
(* node stay as they were.                                                 *)
(***************************************************************************)
\* the items whose promise this step settled
Settled ==
    {item \in BagToSet(inFlight) : inFlight' = inFlight (-) SetToBag({item})}

FetchFailed == lastOp' = "imageFailed" /\ inFlight' # inFlight

C16_FailureStaysLocal ==
    [][FetchFailed =>
          /\ \A item \in Settled :
                /\ item.node \in fallback'
                /\ \A n \in DOMAIN imgSrc \ {item.node} :
                      /\ imgSrc'[n] = imgSrc[n]
                      /\ imgGen'[n] = imgGen[n]
                      /\ n \in fallback' <=> n \in fallback
          /\ imageCache' = imageCache
          /\ UNCHANGED <<renderQueue, renderedDecades, isRendering, frames,
                         grid, vpObserved, transformVars>>]_vars

\* a failed fetch next to a node whose image is loaded: the failed node
\* shows the placeholder and the cache holds the other image only
C16_Witness ==
    /\ lastOp = "imageFailed"
    /\ \E n \in fallback :
           /\ imgSrc[n] = getPlaceholderSrc
           /\ ~CacheHas(imageCache, stamps[n].image)
    /\ \E n \in DOMAIN imgSrc \ fallback : imgSrc[n] # getPlaceholderSrc

(***************************************************************************)
(* C17.  A record without the required field mainTopic is skipped: the     *)
(* batch that holds it goes on, rendering does not stall, and once no      *)
(* frame callback is pending every record that has its mainTopic is        *)
(* rendered.                                                               *)
(***************************************************************************)
Quiescent == pc = "ready" /\ frames = <<>>

C17_FaultyRecordSkipped ==
    Quiescent
        => /\ renderQueue = <<>>
           /\ ~isRendering
           /\ \A i \in DOMAIN stamps :
                  "mainTopic" \in stamps[i].fields => i \in Rendered(grid)

(***************************************************************************)
(* Catalogs with records that lack the year, rendered by app.js.           *)
(***************************************************************************)
YearlessDocuments ==
    {[ok |-> TRUE, stamps |-> s] :
        s \in (UNION {SeqsOver({RecNoYear, RecTwo, RecTen, Sample3}, n) :
                         n \in 0..MaxCatalog})
              \cup {<<RecNoYear>> \o LargeDoc}}

InitYearless ==
    /\ config = DesktopConfig
    /\ document \in YearlessDocuments
    /\ InitRender
    /\ InitImages
    /\ InitUi

SpecYearless == InitYearless /\ [][RenderNext]_vars

(***************************************************************************)
(* C18.  A record without a year is excluded from rendering: once the      *)
(* render queue has drained the grid holds no stamp node and no decade     *)
(* marker for it, and every record with a year has its stamp node.         *)
(***************************************************************************)
C18_YearlessExcluded ==
    (pc = "ready" /\ renderQueue = <<>> /\ frames = <<>>)
        => /\ \A i \in DOMAIN stamps :
                  HasYear(stamps[i]) <=> i \in Rendered(grid)
           /\ \A k \in DOMAIN grid : grid[k].decade # NaN

(***************************************************************************)
(* C19.  A catalog of zero records ends in an explicit "no records"        *)
(* message: in the grid on the desktop path, in the results container on   *)
(* the mobile paginated path.                                              *)
(***************************************************************************)
C19_EmptyCatalogMessage ==
    (pc = "ready" /\ stamps = <<>>)
        => IF config.revision = "paginated" /\ config.isMobile
           THEN mobileResults.kind = "message"
           ELSE emptyMessage

(***************************************************************************)
(* C20.  When the catalog document is absent, is answered with a           *)
(* non-success status or is malformed, the failure reaches the user as a   *)
(* visible message once init() has finished (the sample data may be shown  *)
(* with it).                                                               *)
(***************************************************************************)
C20_LoadFailureVisible ==
    (pc = "ready" /\ ~document.ok) => failureMessage

(***************************************************************************)
(* C21.  The load-time sort is deterministic regardless of input order:    *)
(* once loadStamps has sorted a fetched catalog, this.stamps is the array  *)
(* the sort yields for every other order of the same records (checked for  *)
(* the documents of up to MaxCatalog records).                             *)
(***************************************************************************)
Ids(s) == [i \in DOMAIN s |-> s[i].id]

Orders(s) == SeqsOver(Range(s), Len(s))

C21_SortIgnoresInputOrder ==
    (pc # "loading" /\ document.ok /\ Len(document.stamps) <= MaxCatalog)
        => \A p \in Orders(document.stamps) :
               Ids(SortStamps(p)) = Ids(stamps)

(***************************************************************************)
(* C22.  Every zoom operation that changes the scale keeps the point under *)
(* the pointer fixed on screen: the logical grid point under the pointer,  *)
(* (pointer - translate) / scale, is the same before and after the zoom.   *)
(***************************************************************************)
LogicalPoint(point, tx, ty, s) ==
    <<RDiv(RSub(RInt(point[1]), tx), s), RDiv(RSub(RInt(point[2]), ty), s)>>

ZoomOps == {"zoomIn", "zoomOut", "handleWheel"}

C22_ZoomKeepsPointerFixed ==
    [][(lastOp' \in ZoomOps /\ scale' # scale)
          => LogicalPoint(used'.at, translateX', translateY', scale')
                 = LogicalPoint(used'.at, translateX, translateY, scale)]_vars

(***************************************************************************)
(* C23.  A jump to a rendered item sets the scale to the larger of the     *)
(* current scale and 1 and sets translate so that, under the resulting     *)
(* transform, the item's centre is the centre of the viewport container,   *)
(* whatever scale and translate were before the call.                      *)
(***************************************************************************)
\* the stamp jumpToEra jumps to: the first one of the era or later
EraTarget(era) ==
    LET later == {i \in DOMAIN stamps : /\ HasYear(stamps[i])
                                        /\ stamps[i].year >= eraYears[era]}
    IN  IF later = {} THEN 0 ELSE CHOOSE i \in later : \A j \in later : i <= j

\* the screen position of the centre of element k under scale s and
\* translate (tx, ty)
CentreOnScreen(k, tx, ty, s) ==
    <<RAdd(tx, RMul(RAdd(RInt(LocalX(k)), Rat(cellWidth, 2)), s)),
      RAdd(ty, RMul(RAdd(RInt(LocalY(k)), Rat(cellHeight, 2)), s))>>

ViewportCentre == <<Rat(ContainerWidth, 2), Rat(ContainerHeight, 2)>>

\* era is one whose first stamp has an element in the grid
JumpedTo(era) ==
    /\ EraTarget(era) # 0
    /\ ElementOf(EraTarget(era)) # 0

C23_JumpCentresItem ==
    [][(lastOp' = "jumpToEra" /\ used'.landed > used.landed) =>
          \E era \in DOMAIN eraYears :
              /\ JumpedTo(era)
              /\ scale' = RMax(RInt(1), scale)
              /\ CentreOnScreen(ElementOf(EraTarget(era)),
                                translateX', translateY', scale')
                     = ViewportCentre]_vars

(***************************************************************************)
(* C24.  Every started fetch releases its concurrency slot exactly once,   *)
(* on success and on failure alike: currentLoads is the number of fetches  *)
(* in flight, is never negative, and is 0 when no fetch is in flight.      *)
(***************************************************************************)
C24_SlotsMatchFlights ==
    /\ currentLoads = BagCardinality(inFlight)
    /\ currentLoads >= 0
    /\ inFlight = EmptyBag => currentLoads = 0

\* one fetch has succeeded, another has failed, and none is in flight
C24_Witness ==
    /\ inFlight = EmptyBag /\ currentLoads = 0
    /\ imageCache # <<>>
    /\ fallback # {}

(***************************************************************************)
(* C25.  On completion of a fetch the result is applied to a node only if  *)
(* the node still references that path, and the result of a fetch whose    *)
(* item scrolled out of view before completion is discarded: it does not   *)
(* change the node's image.                                                *)
(***************************************************************************)
\* item is the fetch that this step settles with success
Completes(item) ==
    /\ lastOp' \in {"imageLoaded", "adaptiveLoaded"}
    /\ BagIn(item, inFlight)
    /\ inFlight' = inFlight (-) SetToBag({item})

\* the node of item was reported as out of view after its fetch had started
\* and has not been reported in view since
ScrolledAway(item) ==
    /\ item.node \in leftView
    /\ stamps[item.node].id \notin visibleStamps

C25_StaleResultDiscarded ==
    [][\A item \in BagToSet(inFlight) :
          Completes(item) =>
              /\ imgSrc'[item.node] # imgSrc[item.node]
                     => stamps[item.node].image = item.src
              /\ ScrolledAway(item)
                     => imgSrc'[item.node] = imgSrc[item.node]]_vars

(***************************************************************************)
(* C26.  Loads of the same image path converge on one cached handle: the   *)
(* cache holds at most one handle per path, every node that shows an       *)
(* image shows the handle cached for its path, and no live handle exists   *)
(* outside the cache.                                                      *)
(***************************************************************************)
\* the object URLs created and not revoked
LiveHandles == (1..blobCount) \ revoked

C26_OneHandlePerPath ==
    /\ \A j, k \in DOMAIN imageCache :
          imageCache[j].key = imageCache[k].key => j = k
    /\ \A n \in DOMAIN imgSrc :
          imgSrc[n] # getPlaceholderSrc =>
              /\ CacheHas(imageCache, stamps[n].image)
              /\ imgSrc[n] = CacheGet(imageCache, stamps[n].image)
    /\ LiveHandles \subseteq CachedHandles

(***************************************************************************)
(* Liveness.  The browser runs every pending callback: a fetch settles     *)
(* (loadImage resolves, rejects or times out), a timer fires and an        *)
(* animation frame is delivered.  What the observers report is the         *)
(* reader's scrolling and carries no fairness.  The steps of init come     *)
(* before every report and need none.                                      *)
(***************************************************************************)
FetchSettlesAdaptive ==
    \E item \in BagToSet(inFlight) : adaptiveLoaded(item) \/ adaptiveFailed(item)

SpecAdaptiveFair ==
    /\ SpecAdaptive
    /\ WF_vars(renderProgressiveBatch)
    /\ WF_vars(\E img \in preloadTimers : preloadTimer(img))
    /\ WF_vars(FetchSettlesAdaptive)

FetchSettles ==
    \E item \in BagToSet(inFlight) : imageLoaded(item) \/ imageFailed(item)

SpecImageFair ==
    /\ SpecImage
    /\ WF_vars(\E batches \in 1..MaxFrameBatches : renderBatch(batches))
    /\ WF_vars(queueTimer)
    /\ WF_vars(FetchSettles)

\* node n shows a loaded image or the failure fallback
Shown(n) ==
    \/ n \in fallback
    \/ n \in DOMAIN imgSrc /\ imgSrc[n] # getPlaceholderSrc

\* node n is in Loading: a fetch for its image is in flight
Loading(n) == \E item \in BagToSet(inFlight) : item.node = n

(***************************************************************************)
(* C28.  A load request raised while the number of concurrent loads is at  *)
(* the ceiling is queued, not dropped: every item reported as intersecting *)
(* while in Placeholder eventually shows its loaded image or the failure   *)
(* fallback, provided every fetch eventually settles.                      *)
(***************************************************************************)
\* node n has been served: it shows an image or the fallback, a fetch for
\* its image was started and has settled, or (after an unload) the handle
\* it was given is in the cache
Served(n) ==
    \/ Shown(n)
    \/ n \in started /\ ~Loading(n)
    \/ n \in DOMAIN imgSrc /\ Cached(n)

C28_ReportedEventuallyServed ==
    \A n \in 1..MaxCatalog : (n \in reported) ~> Served(n)

\* the mobile revision with its interval timer: setInterval fires again and
\* again, whatever the observers report
SpecSweepFair ==
    /\ SpecSweep
    /\ WF_vars(\E far \in {{}, ScrolledPast} : aggressiveCleanup(far))

(***************************************************************************)
(* C29.  The cache safety sweep runs periodically on its own timer for as  *)
(* long as the application is alive, independent of the visibility         *)
(* events: whatever number of sweeps has run, another one eventually       *)
(* occurs (up to the MaxSweeps runs the model follows).                    *)
(***************************************************************************)
C29_SweepRecurs ==
    \A k \in 0..(MaxSweeps - 1) : (pc = "ready" /\ sweeps = k) ~> (sweeps > k)

(***************************************************************************)
(* The view of the adaptive revision (src/unnamed/part_002).  Dragging,    *)
(* the wheel and the navigation pad write scale and translate and then     *)
(* call the throttled updateTransform and updateMiniMap: throttle(func,    *)
(* limit) calls func and sets its flag when the flag is down, drops the    *)
(* call when it is up, and a timer takes the flag down after limit ms.     *)
(* The reset calls updateTransform itself.                                 *)
(***************************************************************************)
throttledUpdateTransform(V) ==
    IF inThrottle.transform THEN V ELSE updateTransform(V)

throttledUpdateMiniMap(V) ==
    IF inThrottle.miniMap THEN V ELSE updateTimeline(V)

\* both throttled functions have been called
throttle == inThrottle' = [transform |-> TRUE, miniMap |-> TRUE]

\* the setTimeout callback of throttle: () => inThrottle = false
throttleTimer(func) ==
    /\ inThrottle[func]
    /\ inThrottle' = [inThrottle EXCEPT ![func] = FALSE]
    /\ lastOp' = "throttleTimer"
    /\ UNCHANGED <<renderVars, imageVars, preloadTimers, mobileVars, errorVars,
                   observerVars, uiVars>>

viewFrame == <<renderVars, imageVars, preloadTimers, mobileVars, errorVars,
               observerVars>>

dragAdaptive(point) ==
    /\ pc = "ready"
    /\ isDragging
    /\ Gestures < MaxGestures
    /\ SetView(throttledUpdateMiniMap(throttledUpdateTransform(
           [View EXCEPT !.translateX = RAdd(@, RInt(point[1] - lastX)),
                        !.translateY = RAdd(@, RInt(point[2] - lastY))])))
    /\ throttle
    /\ lastX' = point[1]
    /\ lastY' = point[2]
    /\ used' = [used EXCEPT !.pan = @ + 1]
    /\ lastOp' = "drag"
    /\ UNCHANGED <<viewFrame, searchValue, searchInfo, steps, isDragging,
                   isShiftPressed, panMode, bodyClasses, cursor>>

navigateAdaptive(deltaX, deltaY) ==
    /\ pc = "ready"
    /\ Gestures < MaxGestures
    /\ SetView(throttledUpdateMiniMap(throttledUpdateTransform(
           [View EXCEPT !.translateX = RAdd(@, RInt(deltaX)),
                        !.translateY = RAdd(@, RInt(deltaY))])))
    /\ throttle
    /\ used' = [used EXCEPT !.pan = @ + 1]
    /\ lastOp' = "navigate"
    /\ UNCHANGED <<viewFrame, pointerVars, searchValue, searchInfo, steps>>

handleWheelAdaptive(mouse, deltaDown, ctrlKey) ==
    /\ pc = "ready"
    /\ Gestures < MaxGestures
    /\ LET zoomSpeed == IF ctrlKey THEN Rat(6, 5) ELSE Rat(11, 10)
           zoomFactor == IF deltaDown THEN RDiv(RInt(1), zoomSpeed) ELSE zoomSpeed
           beforeZoomX == RDiv(RSub(RInt(mouse[1]), translateX), scale)
           beforeZoomY == RDiv(RSub(RInt(mouse[2]), translateY), scale)
           newScale == RMax(Rat(1, 10), RMin(RInt(5), RMul(scale, zoomFactor)))
       IN  IF newScale = scale
           THEN SetView(View) /\ UNCHANGED inThrottle
           ELSE /\ SetView(throttledUpdateMiniMap(throttledUpdateTransform(
                       [View EXCEPT
                          !.scale = newScale,
                          !.translateX = RSub(RInt(mouse[1]),
                                              RMul(beforeZoomX, newScale)),
                          !.translateY = RSub(RInt(mouse[2]),
                                              RMul(beforeZoomY, newScale))])))
                /\ throttle
    /\ used' = [used EXCEPT !.wheel = @ + 1, !.at = mouse]
    /\ lastOp' = "handleWheel"
    /\ UNCHANGED <<viewFrame, pointerVars, searchValue, searchInfo, steps>>

\* centerView of the adaptive revision
centerViewAdaptive ==
    /\ pc = "ready"
    /\ SetView(updateTimeline(updateTransform(
           [View EXCEPT !.translateX = RInt(0), !.translateY = RInt(0),
                        !.scale = Rat(3, 10)])))
    /\ lastOp' = "centerView"
    /\ UNCHANGED <<programVars, pointerVars, searchValue, searchInfo, used,
                   steps>>

InitThrottle ==
    /\ config \in {AdaptiveDesktopConfig, AdaptiveMobileConfig}
    /\ document \in ViewDocuments
    /\ InitRender
    /\ InitImages
    /\ InitUi

NextThrottle ==
    \/ loadStamps
    \/ \E batches \in 1..MaxFrameBatches : renderStampsAdaptive(batches)
    \/ renderProgressiveBatch
    \/ \E point \in MousePoints, isRightClick \in BOOLEAN, onStamp \in BOOLEAN :
          startDrag(point, isRightClick, onStamp)
    \/ \E point \in MousePoints : dragAdaptive(point)
    \/ endDrag
    \/ \E d \in {<<0, 100>>, <<100, 0>>} : navigateAdaptive(d[1], d[2])
    \/ \E mouse \in MousePoints, deltaDown \in BOOLEAN, ctrlKey \in BOOLEAN :
          handleWheelAdaptive(mouse, deltaDown, ctrlKey)
    \/ centerViewAdaptive
    \/ \E func \in {"transform", "miniMap"} : throttleTimer(func)

SpecThrottle == InitThrottle /\ [][NextThrottle]_vars

(***************************************************************************)
(* C30.  After a pan, zoom, jump or reset the transform applied to the     *)
(* render surface equals the scale/translate state at once or within the   *)
(* throttle interval: when no throttle interval of updateTransform is      *)
(* running, the applied transform is the state.                            *)
(***************************************************************************)
C30_AppliedFollowsState ==
    (pc = "ready" /\ ~inThrottle.transform)
        => applied = [x |-> translateX, y |-> translateY, scale |-> scale]

(***************************************************************************)
(* Rendering under fair scheduling: the browser delivers every animation   *)
(* frame that was requested.  The steps of init carry no fairness; the     *)
(* properties speak of the time after init.  Weak fairness of the frame    *)
(* callback renderBatch is written out, WF_v(A) being                      *)
(* []<>~ENABLED <<A>>_v \/ []<><<A>>_v: the callback is enabled exactly    *)
(* when it is the oldest pending frame, and every run of it changes        *)
(* frames.                                                                 *)
(***************************************************************************)
BatchFramePending == pc = "ready" /\ frames # <<>> /\ Head(frames) = "batch"

BatchFrameDelivered ==
    \/ []<>~BatchFramePending
    \/ []<><<lastOp' = "renderBatch">>_vars

SpecRenderFair ==
    /\ Init
    /\ [][RenderNext]_vars
    /\ BatchFrameDelivered
    /\ WF_vars(resumeRender)

(***************************************************************************)
(* C31.  For every finite non-empty catalog the renderer terminates under  *)
(* fair scheduling of the frame callbacks: after init the render queue     *)
(* eventually is empty and isRendering eventually is false, and both stay  *)
(* so.                                                                     *)
(***************************************************************************)
C31_RenderTerminates ==
    <>[](pc = "ready" => (renderQueue = <<>> /\ ~isRendering))

(***************************************************************************)
(* C32.  For every catalog and every query of at least three characters    *)
(* the mobile search returns the records the desktop search (handleSearch) *)
(* returns for that query, in the same order.                              *)
(***************************************************************************)
LongQueries ==
    {query \in PaginatedQueries : Len(trim(toLowerCase(query))) >= 3}

C32_MobileSearchAsDesktop ==
    (pc = "ready" /\ config.revision = "paginated")
        => \A query \in LongQueries :
               mobileSearchResults(trim(toLowerCase(query)))
                   = searchMatchesPaginated(query)

(***************************************************************************)
(* C33.  At any time at most one load request per image element is queued  *)
(* or in flight, whatever the viewport observer, the lazy-load observer    *)
(* and the start-up preload report.                                        *)
(***************************************************************************)
\* the image elements: the <img> of a node in one of its generations
ImageElements == {<<item.node, item.gen>> : item \in BagToSet(inFlight)}
                     \cup {<<preloadQueue[k].node, preloadQueue[k].gen>> :
                              k \in DOMAIN preloadQueue}

QueuedFor(img) ==
    Cardinality({k \in DOMAIN preloadQueue :
                    <<preloadQueue[k].node, preloadQueue[k].gen>> = img})

InFlightFor(img) ==
    BagCardinality([item \in {i \in BagToSet(inFlight) :
                                 <<i.node, i.gen>> = img} |-> inFlight[item]])

C33_OneRequestPerImage ==
    \A img \in ImageElements : QueuedFor(img) + InFlightFor(img) <= 1

(***************************************************************************)
(* destroy() of app.js, which the beforeunload listener calls: the cached  *)
(* object URLs are revoked, the observers are disconnected, the queues     *)
(* and the cache are emptied.  Fetches in flight go on and settle.         *)
(***************************************************************************)
destroy ==
    /\ pc = "ready"
    /\ ~destroyed
    /\ destroyed' = TRUE
    /\ revoked' = revoked \cup CachedHandles
    /\ vpObserved' = {}
    /\ lazyObserved' = {}
    /\ preloadQueue' = <<>>
    /\ renderQueue' = <<>>
    /\ imageCache' = <<>>
    /\ lastOp' = "destroy"
    /\ UNCHANGED <<adaptiveVars, uiVars, mobileVars, errorVars, visibleStamps,
                   leftView>>
    /\ UNCHANGED <<config, document, pc, stamps, renderedDecades, isRendering,
                   frames, grid, emptyMessage>>
    /\ UNCHANGED <<imgSrc, imgGen, fallback, currentLoads, inFlight, timers,
                   blobCount, reported, started, reports, sweeps>>

NextDestroy ==
    \/ NextImage
    \/ destroy

SpecDestroy == InitImage /\ [][NextDestroy]_vars

(***************************************************************************)
(* C34.  After destroy(), once every fetch that was in flight has          *)
(* settled, the image cache is empty, the load queue and the render queue  *)
(* are empty and every object URL ever created is revoked.                 *)
(***************************************************************************)
C34_DestroyLeavesNothing ==
    (destroyed /\ inFlight = EmptyBag)
        => /\ imageCache = <<>>
           /\ preloadQueue = <<>>
           /\ renderQueue = <<>>
           /\ LiveHandles = {}

(***************************************************************************)
(* C35.  At most one chain of render batches is active: a scheduleRender   *)
(* call made while isRendering is true changes nothing, at most one frame  *)
(* callback of the renderer is pending, and isRendering is true exactly    *)
(* while one is pending.                                                   *)
(***************************************************************************)
C35_OneRenderChain ==
    /\ scheduleRender(TRUE, renderQueue, frames)
           = [isRendering |-> TRUE, frames |-> frames]
    /\ Len(frames) <= 1
    /\ isRendering <=> frames # <<>>

(***************************************************************************)
(* C36.  A jump to a record whose node has not been rendered yet, as in a  *)
(* search issued while the render queue is draining, leaves scale and      *)
(* translate unchanged.                                                    *)
(***************************************************************************)
\* handleSearch has just jumped to its first match, which has no node
SearchedUnrendered ==
    /\ lastOp = "handleSearch"
    /\ currentMatches # <<>>
    /\ currentMatches[1] \notin Rendered(grid)

C36_JumpToUnrenderedKeepsView ==
    [][SearchedUnrendered'
          => /\ scale' = scale
             /\ translateX' = translateX
             /\ translateY' = translateY]_vars

\* a search found a record of the large catalog that the first chunk left
\* in the render queue, and the view is still the initial one
C36_Witness ==
    /\ SearchedUnrendered
    /\ renderQueue # <<>> /\ grid # <<>>
    /\ scale = initialScale

(***************************************************************************)
(* C37.  The pages of the mobile browse view partition the catalog: over   *)
(* the pages 1..totalPages every record is on exactly one page, a page     *)
(* holds at most stampsPerPage records, newest first, the page shown is    *)
(* the page currentPage, and a request for a page outside 1..totalPages    *)
(* leaves currentPage unchanged.                                           *)
(***************************************************************************)
\* the records renderMobilePage(page) puts into #mobile-results
PageItems(page) == renderMobilePage(Mobile, page).mobileResults.items

NewestFirst(items) ==
    \A a, b \in DOMAIN items :
        a < b => /\ items[a] # items[b]
                 /\ stamps[items[a]].year >= stamps[items[b]].year

C37_PagesPartitionCatalog ==
    (pc = "ready" /\ config.revision = "paginated" /\ config.isMobile)
        => /\ \A i \in DOMAIN stamps :
                  Cardinality({page \in 1..totalPages :
                                  i \in Range(PageItems(page))}) = 1
           /\ \A page \in 1..totalPages :
                  /\ Len(PageItems(page)) <= stampsPerPage
                  /\ NewestFirst(PageItems(page))
           /\ (mobileViewMode = "browse" /\ totalPages > 0)
                  => mobileResults.items = PageItems(currentPage)
           /\ \A page \in {0 - 1, 0, totalPages + 1, totalPages + 2} :
                  renderMobilePage(Mobile, page) = Mobile

\* the second page of the 31-record catalog is shown: it holds the oldest
\* record alone
C37_Witness ==
    /\ config.revision = "paginated" /\ config.isMobile
    /\ lastOp = "renderMobilePage"
    /\ totalPages = 2 /\ currentPage = 2
    /\ mobileResults.items = <<1>>

(***************************************************************************)
(* C38.  In every reachable state the page-wide pan-mode marker is set     *)
(* exactly when the pan-mode toggle is on or the Shift key is held.        *)
(***************************************************************************)
C38_PanMarkerFollowsState ==
    pc = "ready" => (("pan-mode" \in bodyClasses) <=> (panMode \/ isShiftPressed))

(***************************************************************************)
(* The adaptive revision on the mobile platform while a reader scrolls     *)
(* forward through the large catalog, which has more records than the      *)
(* cache has room for: an observer reports the next stamp in document      *)
(* order once rendering is done and the loader is idle, and its fetch      *)
(* succeeds or, MaxFailures times, fails.                                  *)
(***************************************************************************)
InitCeiling ==
    /\ config = AdaptiveMobileConfig
    /\ document = [ok |-> TRUE, stamps |-> LargeDoc]
    /\ InitRender
    /\ InitImages
    /\ InitUi

NextCeiling ==
    \/ loadStamps
    \/ \E batches \in 1..MaxFrameBatches : renderStampsAdaptive(batches)
    \/ renderProgressiveBatch
    \/ \E img \in vpObserved \X {0} :
           Idle /\ NextUnseen(img[1]) /\ adaptiveEnter(img, LargeCatalog)
    \/ \E item \in BagToSet(inFlight) : adaptiveLoaded(item)
    \/ \E item \in BagToSet(inFlight) :
           Cardinality(fallback) < MaxFailures /\ adaptiveFailed(item)

SpecCeiling == InitCeiling /\ [][NextCeiling]_vars

(***************************************************************************)
(* C39.  In the adaptive revision the image cache never holds more than    *)
(* maxCacheSize entries: a loaded handle is inserted only while the cache  *)
(* size is below the ceiling.                                              *)
(***************************************************************************)
C39_AdaptiveCacheBounded ==
    config.revision = "adaptive" => Len(imageCache) <= config.maxCacheSize

\* the cache is full and a later fetch has succeeded: its handle is shown
\* and not cached
C39_Witness ==
    /\ config.revision = "adaptive"
    /\ Len(imageCache) = config.maxCacheSize
    /\ lastOp = "adaptiveLoaded"
    /\ blobCount \in Range(imgSrc)
    /\ blobCount \notin CachedHandles

=============================================================================
